---- MODULE Spec2Model ----
(***************************************************************************)
(* A model of the nzb library: the metadata editor (NzbMetaEditor, an       *)
(* in-place transformation of the parsed XML tree and its serialization),  *)
(* the document model (Nzb.from_str, Nzb.from_file, Nzb.from_json,         *)
(* Nzb.to_json and the sizes) and the functions that read a name.          *)
(*                                                                         *)
(* The specifications that share the module:                               *)
(*   Spec       the editor: an editor is built from a source text and then *)
(*              edited, serialized and saved;                              *)
(*   SpecParse  the document model: a source document is parsed once, and  *)
(*              the Nzb is written as JSON and read back;                  *)
(*   SpecFile   the file system: an Nzb is read from a path, and an editor *)
(*              is saved to a path;                                        *)
(*   SpecName   the names: a function of _subparsers is applied to a text; *)
(*   SpecKind   the kinds of files: an Nzb is asked for its rar and par2   *)
(*              files.                                                     *)
(***************************************************************************)
EXTENDS Integers, Sequences, FiniteSets, TLC

VARIABLES
    tree,      \* NzbMetaEditor._tree: the children of the root element
    nzb,       \* NzbMetaEditor._nzb: the source text before the root element
    pre,       \* history: _tree as it was before the last operation
    preFs,     \* history: the file system as it was before the last operation
    last,      \* history: the last operation and its arguments
    steps,     \* history: the number of operations applied so far
    fs,        \* the file system at the path given to to_file
    out,       \* the outcome of the last to_str / to_file
    doc,       \* the document given to Nzb.from_str, or held by the file read
    result,    \* the outcome of Nzb.from_str or Nzb.from_file
    path,      \* what the file system holds at the path given to from_file
    json,      \* the JSON document given to Nzb.from_json
    back,      \* the outcome of Nzb.from_json
    sizes,     \* the sizes read from an Nzb and from its files
    arg,       \* the text given to a function of _subparsers
    ret,       \* what the function returned
    kinds      \* what is_rar, has_rar, has_par2 and par2_files gave for an Nzb

vars ==
    <<tree, nzb, pre, preFs, last, steps, fs, out, doc, result, path, json, back, sizes,
      arg, ret, kinds>>
editorVars == <<tree, nzb, pre, preFs, last, steps, fs, out>>
parseVars == <<doc, result, path, json, back, sizes>>
nameVars == <<arg, ret, kinds>>

(***************************************************************************)
(* Bounds of the model.                                                    *)
(***************************************************************************)
\* the longest <head> of a source document, in children
MaxHead == 2
\* the number of editing operations applied to one editor
MaxOps == 2

(***************************************************************************)
(* Python values.                                                          *)
(***************************************************************************)
\* Python's None, where a string is expected (an absent attribute, an
\* omitted keyword argument)
None == "<None>"

\* an argument of type `Iterable[str] | str | None`
NoArg == [kind |-> "none", str |-> None, list |-> <<>>]
StrArg(s) == [kind |-> "str", str |-> s, list |-> <<>>]
ListArg(l) == [kind |-> "list", str |-> None, list |-> l]

\* the truth value Python gives an argument in `if passwords:`
Truthy(a) ==
    CASE a.kind = "none" -> FALSE
      [] a.kind = "str" -> a.str # ""
      [] a.kind = "list" -> a.list # <<>>

\* the truth value Python gives a `str | None` in `if title:`
TruthyStr(s) == s # None /\ s # ""

\* every sequence over S of length at most n
SeqsUpTo(S, n) == UNION {[1..k -> S] : k \in 0..n}

\* to_iterable: a bare string is one value, an iterable is its values
to_iterable(a) == IF a.kind = "str" THEN <<a.str>> ELSE a.list

(***************************************************************************)
(* The element tree.  The root <nzb> is the sequence of its children; a    *)
(* child is <head> (with its own children) or a <file>.                    *)
(***************************************************************************)
Meta(type, text) == [tag |-> "meta", type |-> type, text |-> text]
HeadElem(kids) == [tag |-> "head", id |-> "head", kids |-> kids]
FileElem(id) == [tag |-> "file", id |-> id, kids |-> <<>>]

\* ElementTree.SubElement(head, "meta") with its type and text set
SubElement(kids, type, text) == Append(kids, Meta(type, text))

\* Element.find("./head"): the index of the first <head> child, 0 for None
FindHead(t) ==
    IF \E i \in 1..Len(t) : t[i].tag = "head"
    THEN CHOOSE i \in 1..Len(t) :
            /\ t[i].tag = "head"
            /\ \A j \in 1..(i - 1) : t[j].tag # "head"
    ELSE 0

\* the children of the first <head>, <<>> when there is none
HeadKids(t) == IF FindHead(t) = 0 THEN <<>> ELSE t[FindHead(t)].kids

\* head.findall("./meta")
FindAllMeta(kids) == SelectSeq(kids, LAMBDA e : e.tag = "meta")

\* the tree with the children of its first <head> replaced
WithHeadKids(t, kids) == [t EXCEPT ![FindHead(t)].kids = kids]

\* an insertion that overwrites the first child
PutFirst(t, e) == <<e>> \o Tail(t)

\* Element.insert(0, head)
InsertFirst(t, e) == <<e>> \o t

\* Element.remove(child) for the child at index i
RemoveAt(t, i) == SubSeq(t, 1, i - 1) \o SubSeq(t, i + 1, Len(t))

(***************************************************************************)
(* NzbMetaEditor: the editing operations, as functions of the tree.        *)
(***************************************************************************)
\* key() with the ranks of category and tag exchanged
keySwapped(e) ==
    IF e.type # None /\ e.type # ""
    THEN CASE e.type = "title" -> 0
           [] e.type = "category" -> 3
           [] e.type = "password" -> 2
           [] e.type = "tag" -> 1
           [] OTHER -> -1
    ELSE -1

\* the default key of sort(): the rank of a <meta> by its type attribute
key(e) ==
    IF e.type # None /\ e.type # ""
    THEN CASE e.type = "title" -> 0
           [] e.type = "category" -> 1
           [] e.type = "password" -> 2
           [] e.type = "tag" -> 3
           [] OTHER -> -1
    ELSE -1

\* one step of Python's stable sort: e goes after every element whose key
\* is not greater than its own
RECURSIVE InsertSorted(_, _)
InsertSorted(e, s) ==
    IF s = <<>> THEN <<e>>
    ELSE IF key(s[Len(s)]) <= key(e) THEN Append(s, e)
    ELSE Append(InsertSorted(e, SubSeq(s, 1, Len(s) - 1)), s[Len(s)])

\* sorted(seq, key=key)
RECURSIVE sorted(_)
sorted(s) ==
    IF s = <<>> THEN <<>>
    ELSE InsertSorted(s[Len(s)], sorted(SubSeq(s, 1, Len(s) - 1)))

\* NzbMetaEditor.sort() with the default key
sort(t) ==
    IF FindHead(t) # 0
    THEN WithHeadKids(t, sorted(FindAllMeta(HeadKids(t))))
    ELSE t

\* str.casefold on the type attributes of the model
casefold(s) == IF s = "Title" THEN "title" ELSE s

\* remove() comparing the type attribute case-insensitively
removeFold(t, k) ==
    IF FindHead(t) # 0
    THEN WithHeadKids(t,
            SelectSeq(HeadKids(t),
                      LAMBDA e : ~(e.tag = "meta" /\ casefold(e.type) = casefold(k))))
    ELSE t

\* remove() deleting the first match only
removeFirst(t, k) ==
    LET kids == HeadKids(t)
        hits == {i \in 1..Len(kids) : kids[i].tag = "meta" /\ kids[i].type = k}
    IN  IF FindHead(t) # 0 /\ hits # {}
        THEN WithHeadKids(t, RemoveAt(kids, CHOOSE i \in hits : \A j \in hits : i <= j))
        ELSE t

\* NzbMetaEditor.remove(key)
remove(t, k) ==
    IF FindHead(t) # 0
    THEN WithHeadKids(t,
            SelectSeq(HeadKids(t), LAMBDA e : ~(e.tag = "meta" /\ e.type = k)))
    ELSE t

\* `head = self._tree.find("./head")`, created first in the root when None
EnsureHead(t) == IF FindHead(t) = 0 THEN InsertFirst(t, HeadElem(<<>>)) ELSE t

\* `for value in to_iterable(values): SubElement(head, "meta") ...`
RECURSIVE AddAll(_, _, _)
AddAll(kids, type, values) ==
    IF values = <<>> THEN kids
    ELSE AddAll(SubElement(kids, type, values[1]), type, Tail(values))

\* SetField() that forgets to remove the entries it replaces
SetFieldKeep(t, type, given, values) ==
    IF given THEN WithHeadKids(t, AddAll(HeadKids(t), type, values)) ELSE t

\* one `if field: self.remove(type); for ...: SubElement(...)` block of
\* set(): `given` is the truth value of the argument, `values` its values
SetField(t, type, given, values) ==
    IF given
    THEN LET r == remove(t, type)
         IN  WithHeadKids(r, AddAll(HeadKids(r), type, values))
    ELSE t

\* AppendField() that replaces the entries of the type, as set() does
AppendFieldReplace(t, type, a) ==
    IF Truthy(a)
    THEN LET r == remove(t, type)
         IN  WithHeadKids(r, AddAll(HeadKids(r), type, to_iterable(a)))
    ELSE t

\* one `if field: for ...: SubElement(...)` block of append()
AppendField(t, type, a) ==
    IF Truthy(a)
    THEN WithHeadKids(t, AddAll(HeadKids(t), type, to_iterable(a)))
    ELSE t

\* NzbMetaEditor.set(title=, passwords=, tags=, category=)
set(t, title, passwords, tags, category) ==
    LET t0 == EnsureHead(t)
        t1 == SetField(t0, "title", TruthyStr(title), <<title>>)
        t2 == SetField(t1, "password", Truthy(passwords), to_iterable(passwords))
        t3 == SetField(t2, "tag", Truthy(tags), to_iterable(tags))
        t4 == SetField(t3, "category", TruthyStr(category), <<category>>)
    IN  sort(t4)

\* NzbMetaEditor.append(passwords=, tags=)
append(t, passwords, tags) ==
    LET t0 == EnsureHead(t)
        t1 == AppendField(t0, "password", passwords)
        t2 == AppendField(t1, "tag", tags)
    IN  sort(t2)

\* clear() that empties <head> and leaves it in the tree
clearKeepHead(t) == IF FindHead(t) # 0 THEN WithHeadKids(t, <<>>) ELSE t

\* NzbMetaEditor.clear()
clear(t) == IF FindHead(t) # 0 THEN RemoveAt(t, FindHead(t)) ELSE t

(***************************************************************************)
(* Serialization.  A text is a sequence of tokens; a token is a tuple of   *)
(* strings.                                                                *)
(***************************************************************************)
\* the tokens of the source text that decide what the DOCTYPE search finds
XmlDecl == "<?xml version=\"1.0\" encoding=\"UTF-8\"?>"
DoctypeStart == "<!DOCTYPE nzb"
Gt == ">"
NewLine == "\n"
RootOpen == "<nzb xmlns=\"http://www.newzbin.com/DTD/2003/nzb\">"
RootClose == "</nzb>"

\* whether the token's last character is '>'
EndsWithGt(tok) == tok \in {XmlDecl, Gt, RootOpen, RootClose}

\* re.search(r"<!DOCTYPE nzb.*>", nzb): the match that starts at token i, or
\* <<>> when none starts there.  `.` does not match a newline and `*` is
\* greedy: the match runs to the last '>' of the line.
MatchAt(text, i) ==
    LET lineEnd == IF \E j \in i..Len(text) : text[j] = NewLine
                   THEN (CHOOSE j \in i..Len(text) :
                            /\ text[j] = NewLine
                            /\ \A l \in i..(j - 1) : text[l] # NewLine) - 1
                   ELSE Len(text)
        ends == {j \in (i + 1)..lineEnd : EndsWithGt(text[j])}
    IN  IF text[i] = DoctypeStart /\ ends # {}
        THEN SubSeq(text, i, CHOOSE j \in ends : \A l \in ends : l <= j)
        ELSE <<>>

\* parse_doctype: the leftmost match, None (here <<>>) when there is none
parse_doctype(text) ==
    LET starts == {i \in 1..Len(text) : MatchAt(text, i) # <<>>}
    IN  IF starts = {} THEN <<>>
        ELSE MatchAt(text, CHOOSE i \in starts : \A l \in starts : i <= l)

\* generate_header: the XML declaration line, then the DOCTYPE line if any
generate_header(text) ==
    IF parse_doctype(text) # <<>>
    THEN <<<<XmlDecl>>, parse_doctype(text)>>
    ELSE <<<<XmlDecl>>>>

\* ElementTree.tostring of one child of <head>
KidTokens(e) ==
    IF e.tag # "meta" THEN <<<<"<", e.tag, "/>">>>>
    ELSE IF e.text = None \/ e.text = ""
    THEN <<<<"<meta", e.type, "/>">>>>
    ELSE <<<<"<meta", e.type, ">", e.text, "</meta>">>>>

RECURSIVE KidsTokens(_)
KidsTokens(kids) ==
    IF kids = <<>> THEN <<>> ELSE KidTokens(kids[1]) \o KidsTokens(Tail(kids))

\* ElementTree.tostring of one child of the root
ChildTokens(e) ==
    IF e.tag = "head"
    THEN IF e.kids = <<>> THEN <<<<"<head />">>>>
         ELSE <<<<"<head>">>>> \o KidsTokens(e.kids) \o <<<<"</head>">>>>
    ELSE <<<<"<file>", e.id, "</file>">>>>

RECURSIVE ChildrenTokens(_)
ChildrenTokens(t) ==
    IF t = <<>> THEN <<>> ELSE ChildTokens(t[1]) \o ChildrenTokens(Tail(t))

\* NzbMetaEditor.to_str
to_str(text, t) ==
    [header |-> generate_header(text),
     body |-> <<<<RootOpen>>>> \o ChildrenTokens(t) \o <<<<RootClose>>>>]

(***************************************************************************)
(* The editor's state machine.                                             *)
(***************************************************************************)
\* the children a source <head> is built from: the four known types, a type
\* the editor does not know, and a child that is no <meta>
InitKids ==
    {Meta("title", "a"), Meta("category", "a"), Meta("password", "a"),
     Meta("password", "b"), Meta("tag", "a"), Meta("Title", "a"),
     [tag |-> "x", type |-> None, text |-> None]}

\* the <file> elements of the source document
InitFiles == <<FileElem("f1"), FileElem("f2")>>

\* nzb_to_tree of the source documents: without <head>, and with one
InitTrees ==
    {InitFiles} \cup {<<HeadElem(h)>> \o InitFiles : h \in SeqsUpTo(InitKids, MaxHead)}

\* the source text: with or without a DOCTYPE declaration, which may span
\* two lines and may share its line with the root element
SourceText(doctype, inner, after) ==
    <<XmlDecl, NewLine>>
    \o (IF doctype
        THEN <<DoctypeStart, "PUBLIC">> \o (IF inner THEN <<NewLine>> ELSE <<>>)
             \o <<"dtd", Gt>> \o (IF after THEN <<NewLine>> ELSE <<>>)
        ELSE <<>>)
    \o <<RootOpen, NewLine, RootClose>>

\* the usual layout: the DOCTYPE declaration on a line of its own
UsualText == SourceText(TRUE, FALSE, TRUE)

InitTexts ==
    {SourceText(FALSE, FALSE, FALSE)}
    \cup {SourceText(TRUE, i, a) : i \in BOOLEAN, a \in BOOLEAN}

\* the trees the other layouts are tried with: no <head>, an empty one, a
\* sorted one and an unsorted one
LayoutTrees ==
    {InitFiles,
     <<HeadElem(<<>>)>> \o InitFiles,
     <<HeadElem(<<Meta("title", "a"), Meta("tag", "a")>>)>> \o InitFiles,
     <<HeadElem(<<Meta("tag", "a"), Meta("title", "a")>>)>> \o InitFiles}

\* the DOCTYPE declaration of a source text, <<>> when it has none: from
\* "<!DOCTYPE" to the '>' that closes it
Declaration(text) ==
    IF \E i \in 1..Len(text) : text[i] = DoctypeStart
    THEN LET i == CHOOSE i \in 1..Len(text) : text[i] = DoctypeStart
             j == CHOOSE j \in i..Len(text) :
                    /\ text[j] = Gt
                    /\ \A l \in i..(j - 1) : text[l] # Gt
         IN  SubSeq(text, i, j)
    ELSE <<>>

\* the arguments set() is called with: nothing, each field alone (given,
\* and given empty), and several fields at once
SetCall(ti, p, tg, c) == [title |-> ti, passwords |-> p, tags |-> tg, category |-> c]
SetArgs ==
    {SetCall(None, NoArg, NoArg, None),
     SetCall("T", NoArg, NoArg, None),
     SetCall("", NoArg, NoArg, None),
     SetCall(None, StrArg("x"), NoArg, None),
     SetCall(None, ListArg(<<"x", "y">>), NoArg, None),
     SetCall(None, ListArg(<<>>), NoArg, None),
     SetCall(None, NoArg, StrArg("t"), None),
     SetCall(None, NoArg, StrArg(""), None),
     SetCall(None, NoArg, NoArg, "C"),
     SetCall(None, NoArg, NoArg, ""),
     SetCall("T", NoArg, StrArg("t"), None),
     SetCall(None, StrArg("x"), NoArg, "C"),
     SetCall("T", ListArg(<<"x", "y">>), ListArg(<<"t", "u">>), "C")}

\* the arguments append() is called with
AppendCall(p, tg) == [passwords |-> p, tags |-> tg]
AppendArgs ==
    {AppendCall(NoArg, NoArg),
     AppendCall(StrArg("x"), NoArg),
     AppendCall(StrArg(""), NoArg),
     AppendCall(ListArg(<<"x", "y">>), NoArg),
     AppendCall(NoArg, StrArg("t")),
     AppendCall(StrArg("x"), ListArg(<<"t", "u">>))}

\* the keys remove() is called with
RemoveKeys == {"title", "password", "Title", "name"}

\* the file system at the target path: no file, or a file and its content
NoFile == [exists |-> FALSE, content |-> [header |-> <<>>, body |-> <<>>]]
OldFile == [exists |-> TRUE, content |-> [header |-> <<<<"old">>>>, body |-> <<>>]]
FileOf(content) == [exists |-> TRUE, content |-> content]

\* the record of an operation
Op(name) ==
    [op |-> name, title |-> None, passwords |-> NoArg, tags |-> NoArg,
     category |-> None, key |-> None, overwrite |-> FALSE]

NoOut == [kind |-> "none", value |-> <<>>]
NoDoc == <<>>
NoResult == [exc |-> "<pending>", msg |-> None, val |-> None]
NoPath == "<no path>"
NoJson == [t |-> "absent", s |-> "", d |-> <<>>, l |-> <<>>]
NoSizes == [read |-> FALSE, nzb |-> 0, files |-> <<>>]

\* no function of _subparsers has been given a text, or has returned
NoText == [fn |-> "<none>", text |-> <<>>]
NoKinds ==
    [read |-> FALSE, is_rar |-> FALSE, has_rar |-> FALSE, has_par2 |-> FALSE,
     par2_files |-> <<>>]
NoRet == [done |-> FALSE, name |-> [t |-> "none", s |-> <<>>], flag |-> FALSE]

\* the constructor whose outcome is r has not been called
Pending(r) == r.exc = "<pending>"

\* NzbMetaEditor(nzb): every source <head> under the usual layout, with a
\* file at the target path; every layout with a few trees, with and without
\* a file at the target path
Init ==
    /\ \/ /\ tree \in InitTrees
          /\ nzb = UsualText
          /\ fs = OldFile
       \/ /\ tree \in LayoutTrees
          /\ nzb \in InitTexts
          /\ fs \in {NoFile, OldFile}
    /\ pre = tree
    /\ preFs = fs
    /\ last = Op("init")
    /\ steps = 0
    /\ out = NoOut
    /\ doc = NoDoc
    /\ result = NoResult
    /\ path = NoPath
    /\ json = NoJson
    /\ back = NoResult
    /\ sizes = NoSizes
    /\ arg = NoText
    /\ ret = NoRet
    /\ kinds = NoKinds

\* what every operation records
Record(o) ==
    /\ steps < MaxOps
    /\ steps' = steps + 1
    /\ pre' = tree
    /\ preFs' = fs
    /\ last' = o
    /\ UNCHANGED <<nzb, parseVars, nameVars>>

DoSet(title, passwords, tags, category) ==
    /\ Record([Op("set") EXCEPT !.title = title, !.passwords = passwords,
                                !.tags = tags, !.category = category])
    /\ tree' = set(tree, title, passwords, tags, category)
    /\ out' = NoOut
    /\ UNCHANGED fs

DoAppend(passwords, tags) ==
    /\ Record([Op("append") EXCEPT !.passwords = passwords, !.tags = tags])
    /\ tree' = append(tree, passwords, tags)
    /\ out' = NoOut
    /\ UNCHANGED fs

DoRemove(k) ==
    /\ Record([Op("remove") EXCEPT !.key = k])
    /\ tree' = remove(tree, k)
    /\ out' = NoOut
    /\ UNCHANGED fs

DoClear ==
    /\ Record(Op("clear"))
    /\ tree' = clear(tree)
    /\ out' = NoOut
    /\ UNCHANGED fs

DoSort ==
    /\ Record(Op("sort"))
    /\ tree' = sort(tree)
    /\ out' = NoOut
    /\ UNCHANGED fs

ToStr ==
    /\ Record(Op("to_str"))
    /\ out' = [kind |-> "str", value |-> to_str(nzb, tree)]
    /\ UNCHANGED <<tree, fs>>

\* to_file() that writes before it looks for an existing file
ToFileWriteFirst(overwrite) ==
    /\ Record([Op("to_file") EXCEPT !.overwrite = overwrite])
    /\ fs' = FileOf(to_str(nzb, tree))
    /\ IF fs.exists /\ ~overwrite
       THEN out' = [kind |-> "raise", value |-> <<"FileExistsError">>]
       ELSE out' = [kind |-> "path", value |-> <<>>]
    /\ UNCHANGED tree

\* NzbMetaEditor.to_file(filename, overwrite=)
ToFile(overwrite) ==
    /\ Record([Op("to_file") EXCEPT !.overwrite = overwrite])
    /\ IF fs.exists /\ ~overwrite
       THEN /\ out' = [kind |-> "raise", value |-> <<"FileExistsError">>]
            /\ UNCHANGED fs
       ELSE /\ fs' = FileOf(to_str(nzb, tree))
            /\ out' = [kind |-> "path", value |-> <<>>]
    /\ UNCHANGED tree

Next ==
    \/ \E a \in SetArgs : DoSet(a.title, a.passwords, a.tags, a.category)
    \/ \E a \in AppendArgs : DoAppend(a.passwords, a.tags)
    \/ \E k \in RemoveKeys : DoRemove(k)
    \/ DoClear
    \/ DoSort
    \/ ToStr
    \/ \E o \in BOOLEAN : ToFile(o)

Spec == Init /\ [][Next]_vars

(***************************************************************************)
(* The parse pipeline.  A source document is an XML element; nzb_to_dict   *)
(* turns it into the mapping xmltodict builds, which parse_metadata and    *)
(* parse_files read.                                                       *)
(***************************************************************************)
\* an XML element: its attributes as <<"@name", value>> pairs, its child
\* elements, and its text (None when it has none)
Elem(name, attrs, kids, text) ==
    [name |-> name, attrs |-> attrs, kids |-> kids, text |-> text]

\* Python values: None, a str, a dict (a function of its keys), a list
PyNone == [t |-> "none", s |-> "", d |-> <<>>, l |-> <<>>]
PyStr(s) == [t |-> "str", s |-> s, d |-> <<>>, l |-> <<>>]
PyDict(d) == [t |-> "dict", s |-> "", d |-> d, l |-> <<>>]
PyList(l) == [t |-> "list", s |-> "", d |-> <<>>, l |-> l]

\* the outcome of a call: a value, or an exception and its message
Ok(v) == [exc |-> None, msg |-> None, val |-> v]
Raise(e, m) == [exc |-> e, msg |-> m, val |-> PyNone]

\* xmltodict.parse of one element: None or its text when it has neither
\* attributes nor children; else a dict of its attributes, of its children
\* by name (one child: its value; several of a name: the list of their
\* values) and of its text under "#text"
RECURSIVE xmltodict(_)
xmltodict(e) ==
    IF e.attrs = <<>> /\ e.kids = <<>>
    THEN IF e.text = None THEN PyNone ELSE PyStr(e.text)
    ELSE LET attrKeys == {e.attrs[i][1] : i \in 1..Len(e.attrs)}
             kidKeys == {e.kids[i].name : i \in 1..Len(e.kids)}
             textKeys == IF e.text = None THEN {} ELSE {"#text"}
             named(n) == SelectSeq(e.kids, LAMBDA k : k.name = n)
             attr(k) == LET i == CHOOSE i \in 1..Len(e.attrs) : e.attrs[i][1] = k
                        IN  PyStr(e.attrs[i][2])
         IN  PyDict([k \in attrKeys \cup kidKeys \cup textKeys |->
                IF k \in attrKeys THEN attr(k)
                ELSE IF k \in kidKeys
                THEN IF Len(named(k)) = 1 THEN xmltodict(named(k)[1])
                     ELSE PyList([i \in 1..Len(named(k)) |-> xmltodict(named(k)[i])])
                ELSE PyStr(e.text)])

\* nzb_to_dict: the mapping of the document, keyed by the root's name
nzb_to_dict(root) == PyDict([k \in {root.name} |-> xmltodict(root)])

\* v.get(k): the value or None; a value that is no dict has no .get
Get(v, k) ==
    IF v.t = "dict"
    THEN Ok(IF k \in DOMAIN v.d THEN v.d[k] ELSE PyNone)
    ELSE Raise("AttributeError", "get")

\* v[k]: KeyError on a dict without the key, TypeError on None, a str or a
\* list
Item(v, k) ==
    IF v.t = "dict"
    THEN IF k \in DOMAIN v.d THEN Ok(v.d[k]) ELSE Raise("KeyError", k)
    ELSE Raise("TypeError", "subscript")

\* the truth value Python gives a value
PyTruthy(v) ==
    CASE v.t = "none" -> FALSE
      [] v.t = "str" -> v.s # ""
      [] v.t = "dict" -> DOMAIN v.d # {}
      [] v.t = "list" -> v.l # <<>>

\* str.strip on the texts of the model
strip(s) == IF s = " HD " THEN "HD" ELSE IF s = " title" THEN "title" ELSE s

\* int(s) on the texts of the model: <<>> for a ValueError
IntTable ==
    [s \in {"0", "1", "2", "3", "10", "20"} |->
        CASE s = "0" -> 0 [] s = "1" -> 1 [] s = "2" -> 2 [] s = "3" -> 3
          [] s = "10" -> 10 [] s = "20" -> 20]
IsInt(s) == s \in DOMAIN IntTable

\* Meta(): the metadata of a document
MetaOf(title, passwords, tags, category) ==
    [title |-> title, passwords |-> passwords, tags |-> tags, category |-> category]
EmptyMeta == MetaOf(None, <<>>, <<>>, None)

\* field.get("#text") of a <meta> that is a dict: its text or None
TextOf(field) == IF "#text" \in DOMAIN field.d THEN field.d["#text"].s ELSE None

\* field.get("@type", "").casefold().strip()
TypeOf(field) ==
    IF "@type" \in DOMAIN field.d THEN strip(casefold(field.d["@type"].s)) ELSE ""

\* one turn of the loop of parse_metadata, on the Meta built so far
MetaStep(m, field) ==
    CASE TypeOf(field) = "title" -> [m EXCEPT !.title = TextOf(field)]
      [] TypeOf(field) = "password" ->
            IF TruthyStr(TextOf(field))
            THEN [m EXCEPT !.passwords = Append(@, TextOf(field))] ELSE m
      [] TypeOf(field) = "tag" ->
            IF TruthyStr(TextOf(field))
            THEN [m EXCEPT !.tags = Append(@, strip(TextOf(field)))] ELSE m
      [] TypeOf(field) = "category" -> [m EXCEPT !.category = TextOf(field)]
      [] OTHER -> m

\* `for field in fields:` of parse_metadata; a field that is no dict has
\* no .get
RECURSIVE MetaLoop(_, _)
MetaLoop(m, fields) ==
    IF fields = <<>> THEN Ok(m)
    ELSE IF fields[1].t # "dict" THEN Raise("AttributeError", "get")
    ELSE MetaLoop(MetaStep(m, fields[1]), Tail(fields))

\* r[k] when r is a value, r when it is an exception: one more subscript
\* of nzb["nzb"]["head"]["meta"]
Then(r, k) == IF r.exc # None THEN r ELSE Item(r.val, k)

\* parse_metadata after the lookup: `fields = [meta] if isinstance(meta,
\* dict) else meta` and the loop; a str yields its characters, None cannot
\* be iterated
MetaFields(meta) ==
    CASE meta.t = "dict" -> MetaLoop(EmptyMeta, <<meta>>)
      [] meta.t = "list" -> MetaLoop(EmptyMeta, meta.l)
      [] meta.t = "str" -> Raise("AttributeError", "get")
      [] meta.t = "none" -> Raise("TypeError", "iterate")

\* the try block of parse_metadata: only a KeyError of the lookup r gives
\* Meta()
MetaLookup(r) ==
    IF r.exc = "KeyError" THEN Ok(EmptyMeta)
    ELSE IF r.exc # None THEN r
    ELSE MetaFields(r.val)

\* parse_metadata
parse_metadata(d) == MetaLookup(Then(Then(Item(d, "nzb"), "head"), "meta"))

\* the messages of InvalidNzbError
MsgFile == "Invalid or missing 'file' element in the NZB document."
MsgGroups == "Invalid or missing 'groups' element within the 'file' element."
MsgSegments == "Invalid or missing 'segments' element within the 'file' element."
\* str(err) of the ValidationError of a group that is None, without its
\* backquotes; natsorted puts None first
MsgNull == "Expected str, got null - at $.groups[0]"
MsgAttr(a) ==
    CASE a = "poster" -> "Invalid or missing required attribute 'poster' in a 'file' element."
      [] a = "date" -> "Invalid or missing required attribute 'date' in a 'file' element."
      [] a = "subject" -> "Invalid or missing required attribute 'subject' in a 'file' element."
      [] a = "posted_at" -> "Invalid or missing required attribute 'posted_at' in a 'file' element."

\* Segment(size=, number=, message_id=)
SegmentOf(size, number, message_id) ==
    [size |-> size, number |-> number, message_id |-> message_id]

\* the body of the try block of parse_segments for one field that is a
\* dict: <<the Segment>>, or <<>> when a KeyError or a ValueError drops it
SegmentStep(field) ==
    IF /\ "@bytes" \in DOMAIN field.d
       /\ IsInt(field.d["@bytes"].s)
       /\ "@number" \in DOMAIN field.d
       /\ IsInt(field.d["@number"].s)
       /\ "#text" \in DOMAIN field.d
    THEN <<SegmentOf(IntTable[field.d["@bytes"].s], IntTable[field.d["@number"].s],
                     field.d["#text"].s)>>
    ELSE <<>>

\* `for field in fields:` of parse_segments; field["@bytes"] of a field that
\* is no dict is a TypeError, which the loop does not catch
RECURSIVE SegmentLoop(_, _)
SegmentLoop(parsed, fields) ==
    IF fields = <<>> THEN Ok(parsed)
    ELSE IF fields[1].t # "dict" THEN Raise("TypeError", "subscript")
    ELSE SegmentLoop(parsed \o SegmentStep(fields[1]), Tail(fields))

\* an insertion that puts an element before those of the same number
RECURSIVE InsertBeforeEqual(_, _)
InsertBeforeEqual(e, s) ==
    IF s = <<>> THEN <<e>>
    ELSE IF s[Len(s)].number < e.number THEN Append(s, e)
    ELSE Append(InsertBeforeEqual(e, SubSeq(s, 1, Len(s) - 1)), s[Len(s)])

\* list.sort(key=lambda x: x.number): a stable sort by number
RECURSIVE InsertByNumber(_, _)
InsertByNumber(e, s) ==
    IF s = <<>> THEN <<e>>
    ELSE IF s[Len(s)].number <= e.number THEN Append(s, e)
    ELSE Append(InsertByNumber(e, SubSeq(s, 1, Len(s) - 1)), s[Len(s)])

\* the parsed segments left in the order of the document
unsorted(s) == s

RECURSIVE SortByNumber(_)
SortByNumber(s) ==
    IF s = <<>> THEN <<>>
    ELSE InsertByNumber(s[Len(s)], SortByNumber(SubSeq(s, 1, Len(s) - 1)))

\* `fields = [segment] if isinstance(segment, dict) else segment` and the
\* loop of parse_segments
SegmentFields(segment) ==
    CASE segment.t = "dict" -> SegmentLoop(<<>>, <<segment>>)
      [] segment.t = "list" -> SegmentLoop(<<>>, segment.l)
      [] segment.t = "str" -> Raise("TypeError", "subscript")
      [] segment.t = "none" -> Raise("TypeError", "iterate")

\* the end of parse_segments: `if not parsed: raise`, then the sort
SegmentsParsed(loop) ==
    IF loop.exc # None THEN loop
    ELSE IF loop.val = <<>> THEN Raise("InvalidNzbError", MsgSegments)
    ELSE Ok(SortByNumber(loop.val))

\* the try block of parse_segments: a KeyError of the lookup r is the
\* 'segments' error
SegmentLookup(r) ==
    IF r.exc = "KeyError" THEN Raise("InvalidNzbError", MsgSegments)
    ELSE IF r.exc # None THEN r
    ELSE SegmentsParsed(SegmentFields(r.val))

\* parse_segments
parse_segments(segments) ==
    IF ~PyTruthy(segments) THEN Raise("InvalidNzbError", MsgSegments)
    ELSE SegmentLookup(Item(segments, "segment"))

\* the key natsort gives a text of the model: its chunks of text and of
\* digits in turn, a chunk of text by its rank in the order of str and a
\* chunk of digits by its number
NatKey(s) ==
    CASE s = "alt.a" -> <<1>>
      [] s = "alt.b" -> <<2>>
      [] s = "file" -> <<3>>
      [] s = "file2" -> <<3, 2>>
      [] s = "file10" -> <<3, 10>>
      [] OTHER -> <<0>>

\* the order of tuples: a < b
RECURSIVE KeyLess(_, _)
KeyLess(a, b) ==
    IF b = <<>> THEN FALSE
    ELSE IF a = <<>> THEN TRUE
    ELSE IF a[1] # b[1] THEN a[1] < b[1]
    ELSE KeyLess(Tail(a), Tail(b))

\* a stable sort of <<key, element>> pairs by their keys
RECURSIVE InsertNat(_, _)
InsertNat(e, s) ==
    IF s = <<>> THEN <<e>>
    ELSE IF ~KeyLess(e[1], s[Len(s)][1]) THEN Append(s, e)
    ELSE Append(InsertNat(e, SubSeq(s, 1, Len(s) - 1)), s[Len(s)])

RECURSIVE SortNat(_)
SortNat(s) ==
    IF s = <<>> THEN <<>>
    ELSE InsertNat(s[Len(s)], SortNat(SubSeq(s, 1, Len(s) - 1)))

\* the elements left in the order they come in
listed(s, ks) == s

\* natsorted(s, key=...): a stable sort of s by the natural keys of the
\* texts ks, ks[i] being what the key function gives for s[i]
natsorted(s, ks) ==
    LET sortedPairs == SortNat([i \in 1..Len(s) |-> <<NatKey(ks[i]), s[i]>>])
    IN  [i \in 1..Len(s) |-> sortedPairs[i][2]]

\* a datetime: the year of its instant in UTC, the seconds of the instant
\* since the start of that year, its microsecond, and the offset of its time
\* zone from UTC in seconds
DateTime(year, second, microsecond, utcoffset) ==
    [year |-> year, second |-> second, microsecond |-> microsecond,
     utcoffset |-> utcoffset]

\* the text of the timestamp of 0999-12-31 23:59:59 UTC
EarlyDate == "-30610224001"

\* the datetimes of the texts that write a Unix timestamp: whole seconds, in
\* UTC
Timestamps ==
    [s \in DOMAIN IntTable \cup {EarlyDate} |->
        IF s = EarlyDate THEN DateTime(999, 31535999, 0, 0)
        ELSE DateTime(1970, IntTable[s], 0, 0)]
IsTimestamp(s) == s \in DOMAIN Timestamps
fromtimestamp(s) == Timestamps[s]

\* a File
FileOfParts(poster, posted_at, subject, groups, segments) ==
    [poster |-> poster, posted_at |-> posted_at, subject |-> subject,
     groups |-> groups, segments |-> segments]

\* msgspec.convert(..., type=File, strict=False): the fields are validated in
\* the order the File declares them, and the ValidationError names the
\* first that fails; a date is valid when it is the text of an integer, and
\* a group when it is a str
convert(poster, date, subject, groups, segments) ==
    IF poster.t # "str" THEN Raise("ValidationError", "poster")
    ELSE IF date.t # "str" \/ ~IsTimestamp(date.s) THEN Raise("ValidationError", "posted_at")
    ELSE IF subject.t # "str" THEN Raise("ValidationError", "subject")
    ELSE IF \E i \in 1..Len(groups) : groups[i] = None THEN Raise("ValidationError", "groups")
    ELSE Ok(FileOfParts(poster.s, fromtimestamp(date.s), subject.s, groups, segments))

\* AttrOf() that keeps the name of the field
AttrOfField(field) == field

\* `attr = match.group(1); if attr == "posted_at": attr = "date"`
AttrOf(field) == IF field = "posted_at" THEN "date" ELSE field

\* `except msgspec.ValidationError`: the InvalidNzbError that names the
\* attribute when the error is about poster, posted_at or subject, and the
\* InvalidNzbError that carries the text of the ValidationError otherwise
Converted(r) ==
    IF r.exc = "ValidationError"
    THEN IF r.msg \in {"poster", "posted_at", "subject"}
         THEN Raise("InvalidNzbError", MsgAttr(AttrOf(r.msg)))
         ELSE Raise("InvalidNzbError", MsgNull)
    ELSE r

\* g.get("group") if g else None, g being file.get("groups")
GroupsOf(g) == IF PyTruthy(g) THEN Get(g, "group") ELSE Ok(PyNone)

\* grouplist: append a str, extend by the items of a list
GroupList(groups) ==
    IF groups.t = "str" THEN <<groups.s>>
    ELSE [i \in 1..Len(groups.l) |->
            IF groups.l[i].t = "none" THEN None ELSE groups.l[i].s]

\* the try block of the loop of parse_files: parse_segments is evaluated
\* with the arguments of msgspec.convert, so what it raises comes first
FileConvert(file, grouplist, segs) ==
    IF segs.exc # None THEN segs
    ELSE Converted(convert(Get(file, "@poster").val, Get(file, "@date").val,
                           Get(file, "@subject").val, natsorted(grouplist, grouplist),
                           segs.val))

\* a loop that parses the segments before it looks at the groups
FileSegmentsFirst(file, groups) ==
    IF parse_segments(Get(file, "segments").val).exc # None
    THEN parse_segments(Get(file, "segments").val)
    ELSE IF groups.exc # None THEN groups
    ELSE IF groups.val.t = "none" THEN Raise("InvalidNzbError", MsgGroups)
    ELSE FileConvert(file, GroupList(groups.val),
                     parse_segments(Get(file, "segments").val))

\* the loop of parse_files from `if groups is None:`
FileGroups(file, groups) ==
    IF groups.exc # None THEN groups
    ELSE IF groups.val.t = "none" THEN Raise("InvalidNzbError", MsgGroups)
    ELSE FileConvert(file, GroupList(groups.val),
                     parse_segments(Get(file, "segments").val))

\* one turn of the loop of parse_files: the File, or what the turn raises;
\* a file that is no dict has no .get
FileStep(file) ==
    IF file.t # "dict" THEN Raise("AttributeError", "get")
    ELSE FileGroups(file, GroupsOf(Get(file, "groups").val))

\* `for file in files:` of parse_files, r being the outcome of the turn for
\* the first of files
RECURSIVE FileLoop(_, _, _)
FileLoop(filelist, r, files) ==
    IF r.exc # None THEN r
    ELSE IF Len(files) = 1 THEN Ok(Append(filelist, r.val))
    ELSE FileLoop(Append(filelist, r.val), FileStep(files[2]), Tail(files))

\* `subject` of every File of the list: the keys of the last natsorted
Subjects(filelist) == [i \in 1..Len(filelist) |-> filelist[i].subject]

\* the end of parse_files: `if not filelist: raise`, then the sort
FilesParsed(loop) ==
    IF loop.exc # None THEN loop
    ELSE IF loop.val = <<>> THEN Raise("InvalidNzbError", MsgFile)
    ELSE Ok(natsorted(loop.val, Subjects(loop.val)))

\* parse_files from `if files is None:`: a dict is one file, a list many
FilesFound(files) ==
    CASE files.t = "dict" -> FilesParsed(FileLoop(<<>>, FileStep(files), <<files>>))
      [] files.t = "list" -> FilesParsed(FileLoop(<<>>, FileStep(files.l[1]), files.l))
      [] files.t = "str" -> Raise("AttributeError", "get")
      [] files.t = "none" -> Raise("InvalidNzbError", MsgFile)

\* nzb.get("nzb", {})
RootOf(d) == IF "nzb" \in DOMAIN d.d THEN d.d["nzb"] ELSE PyDict(<<>>)

\* `files = nzb.get("nzb", {}).get("file")`, r being the outcome of the
\* second .get
FilesLookup(r) == IF r.exc # None THEN r ELSE FilesFound(r.val)

\* parse_files
parse_files(d) == FilesLookup(Get(RootOf(d), "file"))

\* cls(meta=meta, files=files), or what parse_metadata raised, or else
\* what parse_files raised
NzbOf(meta, files) ==
    IF meta.exc # None THEN meta
    ELSE IF files.exc # None THEN files
    ELSE Ok([meta |-> meta.val, files |-> files.val])

\* the body of Nzb.from_str on the mapping of the document
FromTree(t) == NzbOf(parse_metadata(t), parse_files(t))

\* Nzb.from_str
from_str(root) == FromTree(nzb_to_dict(root))

(***************************************************************************)
(* The sizes of the document model.                                        *)
(***************************************************************************)
\* the sum() of Python over a sequence of numbers
RECURSIVE sum(_)
sum(s) == IF s = <<>> THEN 0 ELSE sum(SubSeq(s, 1, Len(s) - 1)) + s[Len(s)]

\* the number of segments of the file
segment_count(self) == Len(self.segments)

\* File.size
File_size(self) == sum([i \in 1..Len(self.segments) |-> self.segments[i].size])

\* Nzb.size
Nzb_size(self) == sum([i \in 1..Len(self.files) |-> File_size(self.files[i])])

(***************************************************************************)
(* Nzb.from_file: the file at the path is read, and its text parsed.       *)
(***************************************************************************)
\* what the path can hold: nothing, a directory, a file that cannot be
\* opened, a file that is not UTF-8, a .gz file that is no gzip stream, a
\* .gz file that ends too early, and files that hold a document
PathKinds ==
    {"missing", "directory", "unreadable", "undecodable", "badgzip", "shortgzip",
     "file", "gzfile"}

\* Path.is_file()
is_file(p) == p \notin {"missing", "directory"}

\* reading the path with every failure reported as an invalid document
read_wrapped(p, d) ==
    IF p \in {"file", "gzfile"} THEN [exc |-> None, msg |-> None, val |-> d]
    ELSE [exc |-> "InvalidNzbError", msg |-> "I/O error while reading file",
          val |-> [t |-> "none", s |-> "", d |-> <<>>, l |-> <<>>]]

\* read_nzb_file(path) where the file at the path, when it can be read,
\* holds the document d
read_nzb_file(p, d) ==
    IF ~is_file(p) THEN Raise("FileNotFoundError", "path")
    ELSE CASE p = "badgzip" -> Raise("InvalidNzbError", "Gzip decompression error")
           [] p = "shortgzip" -> Raise("EOFError", "Compressed file ended")
           [] p \in {"unreadable", "undecodable"} ->
                  Raise("InvalidNzbError", "I/O error while reading file")
           [] p \in {"file", "gzfile"} -> Ok(d)

\* `cls.from_str(read_nzb_file(nzb))`
FromText(text) == IF text.exc # None THEN text ELSE from_str(text.val)

\* Nzb.from_file
from_file(p, d) == FromText(read_nzb_file(p, d))

(***************************************************************************)
(* The JSON bridge: Nzb.to_json and Nzb.from_json.  A JSON document is the *)
(* value json.loads gives for it: None, a str, an int, a list or a dict.   *)
(***************************************************************************)
PyInt(n) == [t |-> "int", s |-> "", d |-> <<>>, l |-> <<>>, n |-> n]

\* a text that is no JSON document
NotJson == [t |-> "invalid", s |-> "", d |-> <<>>, l |-> <<>>]

\* "%Y-%m-%dT%H:%M:%SZ" of a wall clock: the year and the seconds since
\* its start.  %Y of a year before 1000 has four digits where the C library
\* pads it and fewer where it does not (glibc)
DateText(year, second, padded) ==
    CASE year = 1970 /\ second = 0 -> "1970-01-01T00:00:00Z"
      [] year = 1970 /\ second = 1 -> "1970-01-01T00:00:01Z"
      [] year = 1970 /\ second = 2 -> "1970-01-01T00:00:02Z"
      [] year = 1970 /\ second = 3 -> "1970-01-01T00:00:03Z"
      [] year = 1970 /\ second = 10 -> "1970-01-01T00:00:10Z"
      [] year = 1970 /\ second = 20 -> "1970-01-01T00:00:20Z"
      [] year = 999 /\ second = 31535999 ->
             IF padded THEN "0999-12-31T23:59:59Z" ELSE "999-12-31T23:59:59Z"

\* whether strftime pads the year to four digits on the platform
Platforms == BOOLEAN

\* obj.strftime("%Y-%m-%dT%H:%M:%SZ"): the wall clock of the datetime in its
\* own zone, without the microsecond, then a Z whatever the zone is
strftime(dt, padded) == DateText(dt.year, dt.second + dt.utcoffset, padded)

\* the datetimes whose text strptime reads
Readable == {Timestamps[s] : s \in DOMAIN Timestamps}

\* datetime.strptime(text, "%Y-%m-%dT%H:%M:%S%z"): %Y reads four digits,
\* and the Z is UTC
strptime(text) ==
    IF \E dt \in Readable : DateText(dt.year, dt.second, TRUE) = text
    THEN Ok(CHOOSE dt \in Readable : DateText(dt.year, dt.second, TRUE) = text)
    ELSE Raise("ValueError", "strptime")

\* json.dumps of an optional str and of a tuple of str
StrOrNull(v) == IF v = None THEN PyNone ELSE PyStr(v)
StrList(t) == PyList([i \in 1..Len(t) |-> PyStr(t[i])])

\* dataclasses.asdict and json.dumps of a Segment, a Meta and a File
SegmentJson(segment) ==
    PyDict([k \in {"size", "number", "message_id"} |->
        CASE k = "size" -> PyInt(segment.size)
          [] k = "number" -> PyInt(segment.number)
          [] k = "message_id" -> PyStr(segment.message_id)])

MetaJson(meta) ==
    PyDict([k \in {"title", "passwords", "tags", "category"} |->
        CASE k = "title" -> StrOrNull(meta.title)
          [] k = "passwords" -> StrList(meta.passwords)
          [] k = "tags" -> StrList(meta.tags)
          [] k = "category" -> StrOrNull(meta.category)])

FileJson(file, padded) ==
    PyDict([k \in {"poster", "posted_at", "subject", "groups", "segments"} |->
        CASE k = "poster" -> PyStr(file.poster)
          [] k = "posted_at" -> PyStr(strftime(file.posted_at, padded))
          [] k = "subject" -> PyStr(file.subject)
          [] k = "groups" -> StrList(file.groups)
          [] k = "segments" ->
                 PyList([i \in 1..Len(file.segments) |-> SegmentJson(file.segments[i])])])

\* Nzb.to_json on a platform; pretty= changes the white space of the text
\* only
to_json(self, padded) ==
    PyDict([k \in {"meta", "files"} |->
        CASE k = "meta" -> MetaJson(self.meta)
          [] k = "files" ->
                 PyList([i \in 1..Len(self.files) |-> FileJson(self.files[i], padded)])])

MsgJson == "The provided JSON data is not in the expected format or contains invalid values."

\* json.loads
loads(data) == IF data.t = "invalid" THEN Raise("JSONDecodeError", "json") ELSE Ok(data)

\* the value a field of the model takes from a JSON value, which the
\* constructors of Meta, File and Segment store as it is
RECURSIVE FromPy(_)
FromPy(v) ==
    CASE v.t = "none" -> None
      [] v.t = "str" -> v.s
      [] v.t = "int" -> v.n
      [] v.t = "list" -> [i \in 1..Len(v.l) |-> FromPy(v.l[i])]

\* the elements a loop over the value r.val visits; None and an int cannot
\* be iterated (the JSON documents of the model hold a list, null or a
\* number where a list is expected)
Iter(r) ==
    IF r.exc # None THEN r
    ELSE IF r.val.t = "list" THEN Ok(r.val.l)
    ELSE Raise("TypeError", "iterable")

\* tuple(r.val)
TupleOf(r) ==
    IF Iter(r).exc # None THEN Iter(r) ELSE Ok(FromPy(r.val))

\* the first of the outcomes rs that is an exception, or their values
Collect(rs) ==
    IF \E i \in 1..Len(rs) : rs[i].exc # None
    THEN rs[CHOOSE i \in 1..Len(rs) :
                /\ rs[i].exc # None
                /\ \A j \in 1..(i - 1) : rs[j].exc = None]
    ELSE Ok([i \in 1..Len(rs) |-> rs[i].val])

\* Meta(title=dejson["meta"]["title"], ...)
MetaParts(dejson) ==
    Collect(<<Then(Item(dejson, "meta"), "title"),
              TupleOf(Then(Item(dejson, "meta"), "passwords")),
              TupleOf(Then(Item(dejson, "meta"), "tags")),
              Then(Item(dejson, "meta"), "category")>>)
MetaBuilt(parts) ==
    IF parts.exc # None THEN parts
    ELSE Ok(MetaOf(FromPy(parts.val[1]), parts.val[2], parts.val[3], FromPy(parts.val[4])))

\* Segment(size=segment["size"], number=segment["number"],
\* message_id=segment["message_id"])
SegmentParts(segment) ==
    Collect(<<Item(segment, "size"), Item(segment, "number"), Item(segment, "message_id")>>)
SegmentBuilt(parts) ==
    IF parts.exc # None THEN parts
    ELSE Ok(SegmentOf(FromPy(parts.val[1]), FromPy(parts.val[2]), FromPy(parts.val[3])))

\* tuple(Segment(...) for segment in file["segments"])
SegmentsBuilt(fields) ==
    IF fields.exc # None THEN fields
    ELSE Collect([i \in 1..Len(fields.val) |-> SegmentBuilt(SegmentParts(fields.val[i]))])

\* datetime.strptime(file["posted_at"], ...): what is no str is a TypeError
DateOf(r) ==
    IF r.exc # None THEN r
    ELSE IF r.val.t # "str" THEN Raise("TypeError", "strptime")
    ELSE strptime(r.val.s)

\* the body of the loop of from_json for one file
FileParts(file) ==
    Collect(<<SegmentsBuilt(Iter(Item(file, "segments"))),
              TupleOf(Item(file, "groups")),
              DateOf(Item(file, "posted_at")),
              Item(file, "poster"),
              Item(file, "subject")>>)
FileBuilt(parts) ==
    IF parts.exc # None THEN parts
    ELSE Ok(FileOfParts(FromPy(parts.val[4]), parts.val[3], FromPy(parts.val[5]),
                        parts.val[2], parts.val[1]))

\* `for file in dejson["files"]`
FilesBuilt(fields) ==
    IF fields.exc # None THEN fields
    ELSE Collect([i \in 1..Len(fields.val) |-> FileBuilt(FileParts(fields.val[i]))])

\* `except (KeyError, TypeError, ValueError)`
Caught(r) ==
    IF r.exc \in {"KeyError", "TypeError", "ValueError"}
    THEN Raise("InvalidNzbError", MsgJson)
    ELSE r

\* the try block of from_json and `return cls(meta=meta, files=tuple(files))`
FromLoaded(dejson) ==
    IF dejson.exc # None THEN dejson
    ELSE Caught(NzbOf(MetaBuilt(MetaParts(dejson.val)),
                      FilesBuilt(Iter(Item(dejson.val, "files")))))

\* Nzb.from_json
from_json(data) == FromLoaded(loads(data))

(***************************************************************************)
(* The documents that are parsed, and the parse as a state machine.        *)
(***************************************************************************)
MaxFiles == 2
MaxChunks == 4

XmlMeta(type, text) == Elem("meta", <<<<"@type", type>>>>, <<>>, text)
XmlHead(kids) == Elem("head", <<>>, kids, None)
XmlGroups(names) ==
    Elem("groups", <<>>, [i \in 1..Len(names) |-> Elem("group", <<>>, <<>>, names[i])], None)
XmlSegment(bytes, number, id) ==
    Elem("segment", <<<<"@bytes", bytes>>, <<"@number", number>>>>, <<>>, id)
XmlSegments(kids) == Elem("segments", <<>>, kids, None)
XmlFile(attrs, kids) == Elem("file", attrs, kids, None)
XmlRoot(attrs, kids) == Elem("nzb", attrs, kids, None)

AllAttrs(subject) == <<<<"@poster", "joe">>, <<"@date", "10">>, <<"@subject", subject>>>>
OneGroup == XmlGroups(<<"alt.a">>)
TwoGroups == XmlGroups(<<"alt.b", "alt.a">>)
EmptyGroupBeside == XmlGroups(<<"alt.a", None>>)
OneSegment == XmlSegments(<<XmlSegment("10", "1", "id1")>>)
TwoSegments == XmlSegments(<<XmlSegment("20", "2", "id2"), XmlSegment("10", "1", "id1")>>)

\* segments of which two have the same number, and one the number 0
SameNumberSegments ==
    XmlSegments(<<XmlSegment("20", "1", "id2"), XmlSegment("10", "1", "id1"),
                  XmlSegment("10", "0", "id0")>>)

\* the attributes of a <file> without the one named
AttrsWithout(name, subject) ==
    SelectSeq(AllAttrs(subject), LAMBDA a : a[1] # name)

\* <segment> elements that parse_segments cannot use: without the number
\* attribute, with bytes that are no integer, without text, and without
\* any attribute (xmltodict gives its text for such an element, and None
\* when it has no text either)
NoNumberSegment == Elem("segment", <<<<"@bytes", "10">>>>, <<>>, "id3")
BadBytesSegment == XmlSegment("x", "3", "id3")
NoTextSegment == XmlSegment("10", "3", None)
BareSegment == Elem("segment", <<>>, <<>>, "id3")
EmptySegment == Elem("segment", <<>>, <<>>, None)

\* the <file> elements of the documents: two that are valid; one each
\* without groups, without segments, without one or two of the required
\* attributes and with a date that is no integer; three with a valid
\* segment beside segments that are not; two without any valid segment
FileVariants ==
    { XmlFile(AllAttrs("file10"), <<OneGroup, OneSegment>>),
      XmlFile(AllAttrs("file2"), <<TwoGroups, TwoSegments>>),
      XmlFile(AllAttrs("file2"), <<OneSegment>>),
      XmlFile(AllAttrs("file2"), <<OneGroup>>),
      XmlFile(AttrsWithout("@poster", "file2"), <<OneGroup, OneSegment>>),
      XmlFile(<<<<"@poster", "joe">>, <<"@date", "x">>, <<"@subject", "file2">>>>,
              <<OneGroup, OneSegment>>),
      XmlFile(AttrsWithout("@date", "file2"), <<OneGroup, OneSegment>>),
      XmlFile(AttrsWithout("@subject", "file2"), <<OneGroup, OneSegment>>),
      XmlFile(<<<<"@date", "10">>>>, <<OneGroup, OneSegment>>),
      XmlFile(<<<<"@poster", "joe">>, <<"@date", EarlyDate>>, <<"@subject", "file">>>>,
              <<OneGroup, OneSegment>>),
      XmlFile(AllAttrs("file2"),
              <<OneGroup, XmlSegments(<<NoNumberSegment, XmlSegment("20", "2", "id2")>>)>>),
      XmlFile(AllAttrs("file10"),
              <<OneGroup, XmlSegments(<<BadBytesSegment, XmlSegment("10", "1", "id1"),
                                        NoTextSegment>>)>>),
      XmlFile(AllAttrs("file2"),
              <<OneGroup, XmlSegments(<<XmlSegment("10", "1", "id1"), BareSegment>>)>>),
      XmlFile(AllAttrs("file2"), <<OneGroup, XmlSegments(<<NoNumberSegment>>)>>),
      XmlFile(AllAttrs("file2"), <<OneGroup, XmlSegments(<<EmptySegment>>)>>),
      XmlFile(AllAttrs("file10"), <<OneGroup, SameNumberSegments>>),
      XmlFile(AllAttrs("file10"), <<EmptyGroupBeside, OneSegment>>),
      XmlFile(<<<<"@date", "10">>>>, <<XmlSegments(<<NoNumberSegment>>)>>),
      XmlFile(<<<<"@date", "10">>>>, <<OneGroup, XmlSegments(<<NoNumberSegment>>)>>) }

\* what a document has before its files: nothing, an empty <head>, a
\* <head> of one or of two <meta>, of a <meta> of a type that is not known,
\* or of a <meta> that has a text and no type attribute
HeadVariants ==
    { <<>>,
      <<XmlHead(<<>>)>>,
      <<XmlHead(<<XmlMeta("title", "a")>>)>>,
      <<XmlHead(<<XmlMeta("Title", "a"), XmlMeta("name", "a")>>)>>,
      <<XmlHead(<<XmlMeta("password", "a"), XmlMeta("tag", " HD ")>>)>>,
      <<XmlHead(<<XmlMeta("name", "a")>>)>>,
      <<XmlHead(<<Elem("meta", <<>>, <<>>, "a")>>)>>,
      <<XmlHead(<<XmlMeta("title", "a"), XmlMeta("category", "a"),
                  XmlMeta("title", None), XmlMeta("category", "b")>>)>>,
      <<XmlHead(<<XmlMeta("title", None), XmlMeta("title", "a")>>)>> }

\* the attributes of the root element: none, or its namespace
RootAttrs == { <<>>, <<<<"@xmlns", "http://www.newzbin.com/DTD/2003/nzb">>>> }

\* the documents: every root with every <head> and at most one <file>, and
\* the root without attributes with every <head> and up to MaxFiles files
Docs ==
    { XmlRoot(a, h \o f) : a \in RootAttrs, h \in HeadVariants,
                           f \in SeqsUpTo(FileVariants, 1) }
    \cup { XmlRoot(<<>>, h \o f) : h \in HeadVariants,
                                   f \in SeqsUpTo(FileVariants, MaxFiles) }

\* the documents that files hold: without <head>, of at most one <file>
DiskDocs ==
    { XmlRoot(<<>>, f) : f \in SeqsUpTo(FileVariants, 1) }

\* JSON documents that to_json did not write
JsonMeta(title) ==
    PyDict([k \in {"title", "passwords", "tags", "category"} |->
        CASE k = "title" -> title
          [] k = "passwords" -> PyList(<<>>)
          [] k = "tags" -> PyList(<<PyStr("HD")>>)
          [] k = "category" -> PyNone])
JsonSegment == SegmentJson(SegmentOf(10, 1, "id1"))
JsonFile(posted_at, segments) ==
    PyDict([k \in {"poster", "posted_at", "subject", "groups", "segments"} |->
        CASE k = "poster" -> PyStr("joe")
          [] k = "posted_at" -> posted_at
          [] k = "subject" -> PyStr("file2")
          [] k = "groups" -> PyList(<<PyStr("alt.a")>>)
          [] k = "segments" -> segments])
JsonNzb(meta, files) ==
    PyDict([k \in {"meta", "files"} |-> IF k = "meta" THEN meta ELSE files])
JsonDates == {PyStr(DateText(1970, 10, TRUE)), PyStr("not a date"), PyInt(10), PyNone}
JsonSegmentLists ==
    {PyList(<<JsonSegment>>), PyList(<<>>), PyNone,
     PyList(<<PyDict([k \in {"size"} |-> PyInt(10)])>>)}
JsonFiles == {JsonFile(p, g) : p \in JsonDates, g \in JsonSegmentLists}
JsonFileLists ==
    {PyNone, PyInt(0)} \cup {PyList(f) : f \in SeqsUpTo(JsonFiles, 1)}
JsonInputs ==
    {NotJson, PyList(<<>>), PyDict([k \in {"meta"} |-> JsonMeta(PyNone)]),
     PyDict([k \in {"files"} |-> PyList(<<>>)])}
    \cup {JsonNzb(m, f) : m \in {PyNone, JsonMeta(PyNone), JsonMeta(PyStr("title"))},
                          f \in JsonFileLists}

\* a document given to from_str, a path given to from_file, or a JSON
\* document given to from_json
InitParse ==
    /\ \/ doc \in Docs /\ path = NoPath /\ json = NoJson
       \/ doc \in DiskDocs /\ path \in PathKinds /\ json = NoJson
       \/ doc = NoDoc /\ path = NoPath /\ json \in JsonInputs
    /\ result = NoResult
    /\ back = NoResult
    /\ sizes = NoSizes
    /\ arg = NoText
    /\ ret = NoRet
    /\ kinds = NoKinds
    /\ tree = <<>>
    /\ nzb = <<>>
    /\ pre = <<>>
    /\ preFs = NoFile
    /\ last = Op("init")
    /\ steps = 0
    /\ fs = NoFile
    /\ out = NoOut

\* Nzb.from_str(doc)
FromStr ==
    /\ Pending(result)
    /\ path = NoPath
    /\ json = NoJson
    /\ result' = from_str(doc)
    /\ UNCHANGED <<editorVars, nameVars, doc, path, json, back, sizes>>

\* Nzb.from_file(path)
FromFile ==
    /\ Pending(result)
    /\ path # NoPath
    /\ result' = from_file(path, doc)
    /\ UNCHANGED <<editorVars, nameVars, doc, path, json, back, sizes>>

\* json = result.to_json() of an Nzb that a constructor returned
ToJson ==
    /\ result.exc = None
    /\ json = NoJson
    /\ \E padded \in Platforms : json' = to_json(result.val, padded)
    /\ UNCHANGED <<editorVars, nameVars, doc, path, result, back, sizes>>

\* Nzb.from_json(json)
FromJson ==
    /\ json # NoJson
    /\ Pending(back)
    /\ back' = from_json(json)
    /\ UNCHANGED <<editorVars, nameVars, doc, path, result, json, sizes>>

\* the Nzb at hand: the one from_str or from_file returned, else the one
\* from_json returned
TheNzb == IF result.exc = None THEN result.val ELSE back.val

\* nzb.size and file.size for every file of nzb.files are read
Size ==
    /\ result.exc = None \/ back.exc = None
    /\ ~sizes.read
    /\ sizes' = [read |-> TRUE, nzb |-> Nzb_size(TheNzb),
                 files |-> [i \in 1..Len(TheNzb.files) |-> File_size(TheNzb.files[i])]]
    /\ UNCHANGED <<editorVars, nameVars, doc, path, result, json, back>>

NextParse == FromStr \/ FromFile \/ ToJson \/ FromJson \/ Size

\* from_str has been called on doc, by itself or by from_file, and has
\* returned or raised
Parsed == ~Pending(result) /\ path \in {NoPath, "file", "gzfile"}

SpecParse == InitParse /\ [][NextParse]_vars

(***************************************************************************)
(* The file system: Nzb.from_file reads one path, and an editor is saved   *)
(* to another with to_file.                                                *)
(***************************************************************************)
InitFile ==
    /\ tree \in LayoutTrees
    /\ nzb = UsualText
    /\ fs \in {NoFile, OldFile}
    /\ pre = tree
    /\ preFs = fs
    /\ last = Op("init")
    /\ steps = 0
    /\ out = NoOut
    /\ doc \in DiskDocs
    /\ path \in PathKinds
    /\ result = NoResult
    /\ json = NoJson
    /\ back = NoResult
    /\ sizes = NoSizes
    /\ arg = NoText
    /\ ret = NoRet
    /\ kinds = NoKinds

NextFile ==
    \/ FromFile
    \/ \E o \in BOOLEAN : ToFile(o)

SpecFile == InitFile /\ [][NextFile]_vars

(***************************************************************************)
(* Names.  The subject of a file and the name it holds: a text is the      *)
(* sequence of its characters, and a regular expression is matched as      *)
(* Python's re matches it, by backtracking over the alternatives in the    *)
(* order of their priority.                                                *)
(***************************************************************************)
\* the characters of the texts of the model, by class
Digits == {"0", "1", "2", "3", "4", "5", "6", "7", "8", "9"}
LowerChars ==
    {"a", "b", "c", "d", "e", "f", "g", "h", "i", "j", "k", "l", "m",
     "n", "o", "p", "q", "r", "s", "t", "u", "v", "w", "x", "y", "z"}
UpperChars ==
    {"A", "B", "C", "D", "E", "F", "G", "H", "I", "J", "K", "L", "M",
     "N", "O", "P", "Q", "R", "S", "T", "U", "V", "W", "X", "Y", "Z"}
Letters == LowerChars \cup UpperChars
HexChars == Digits \cup {"a", "b", "c", "d", "e", "f"}
Punctuation == {"\"", "[", "]", "(", ")", "/", "-", ".", " ", "_", "+", "'", ","}
Alphabet == Digits \cup Letters \cup Punctuation

\* \w, \s, \d and "." of a pattern
WordChars == Letters \cup Digits \cup {"_"}
Whitespace == {" "}
AnyChar == Alphabet

\* a regular expression: a set of characters, \b, a sequence, a greedy
\* repetition of min to max times (max = -1: no limit)
Set(cs) == [k |-> "set", cs |-> cs, rs |-> <<>>, min |-> 0, max |-> 0]
Boundary == [k |-> "b", cs |-> {}, rs |-> <<>>, min |-> 0, max |-> 0]
Cat(rs) == [k |-> "seq", cs |-> {}, rs |-> rs, min |-> 0, max |-> 0]
Rep(r, min, max) == [k |-> "rep", cs |-> {}, rs |-> <<r>>, min |-> min, max |-> max]
Star(r) == Rep(r, 0, -1)
Plus(r) == Rep(r, 1, -1)
Chr(c) == Set({c})

\* \b at position i of s: a word character on one side only
IsWord(s, i) == i >= 1 /\ i <= Len(s) /\ s[i] \in WordChars
AtBoundary(s, i) == IsWord(s, i - 1) # IsWord(s, i)

\* the positions where a match of re that starts at position i of s can end,
\* in the order in which the matcher tries them
RECURSIVE Ends(_, _, _)
RECURSIVE SeqEnds(_, _, _, _)
RECURSIVE Through(_, _, _, _, _)
RECURSIVE RepEnds(_, _, _, _, _)
RECURSIVE Again(_, _, _, _, _, _, _)
Ends(re, s, i) ==
    CASE re.k = "set" -> IF i <= Len(s) /\ s[i] \in re.cs THEN <<i + 1>> ELSE <<>>
      [] re.k = "b" -> IF AtBoundary(s, i) THEN <<i>> ELSE <<>>
      [] re.k = "seq" -> SeqEnds(re.rs, 1, s, i)
      [] re.k = "rep" -> RepEnds(re.rs[1], re.min, re.max, s, i)

SeqEnds(rs, k, s, i) ==
    IF k > Len(rs) THEN <<i>> ELSE Through(rs, k, s, Ends(rs[k], s, i), 1)

Through(rs, k, s, ends, j) ==
    IF j > Len(ends) THEN <<>>
    ELSE SeqEnds(rs, k + 1, s, ends[j]) \o Through(rs, k, s, ends, j + 1)

\* greedy: one more repetition is tried before none
RepEnds(r, min, max, s, i) ==
    (IF max = 0 THEN <<>> ELSE Again(r, min, max, s, i, Ends(r, s, i), 1))
        \o (IF min <= 0 THEN <<i>> ELSE <<>>)

Again(r, min, max, s, i, ends, j) ==
    IF j > Len(ends) THEN <<>>
    ELSE (IF ends[j] = i THEN <<>> ELSE RepEnds(r, min - 1, max - 1, s, ends[j]))
             \o Again(r, min, max, s, i, ends, j + 1)

\* a pattern with one group: what precedes the group, the group, what follows
Pattern(before, group, after) == [before |-> before, group |-> group, after |-> after]

\* one of the ends is the position end, or any end will do
Reaches(ends, full, end) == \E k \in 1..Len(ends) : ~full \/ ends[k] = end

\* re matches from position i of s (to the end of s when full)
Finishes(re, s, i, full) == Reaches(Ends(re, s, i), full, Len(s) + 1)

\* the groups <<start, end>> of the matches of p at position i of s, in the
\* order in which the matcher finds them
RECURSIVE GroupEnds(_, _, _, _, _, _)
RECURSIVE GroupStarts(_, _, _, _, _)
GroupEnds(p, s, full, start, ends, j) ==
    IF j > Len(ends) THEN <<>>
    ELSE (IF Finishes(p.after, s, ends[j], full) THEN <<(<<start, ends[j]>>)>> ELSE <<>>)
             \o GroupEnds(p, s, full, start, ends, j + 1)

GroupStarts(p, s, full, starts, j) ==
    IF j > Len(starts) THEN <<>>
    ELSE GroupEnds(p, s, full, starts[j], Ends(p.group, s, starts[j]), 1)
             \o GroupStarts(p, s, full, starts, j + 1)

Groups(p, s, i, full) == GroupStarts(p, s, full, Ends(p.before, s, i), 1)

\* parsed.group(1) of a match: the text of the group; <<>> stands for no
\* match, and a matched group is <<text>>
Group1(s, groups) ==
    IF groups = <<>> THEN <<>> ELSE <<SubSeq(s, groups[1][1], groups[1][2] - 1)>>

\* re.fullmatch(p, s)
fullmatch(p, s) == Group1(s, Groups(p, s, 1, TRUE))

\* re.search(p, s): the match at the leftmost position that has one
RECURSIVE searchFrom(_, _, _)
searchFrom(p, s, i) ==
    IF i > Len(s) + 1 THEN <<>>
    ELSE IF Groups(p, s, i, FALSE) # <<>> THEN Group1(s, Groups(p, s, i, FALSE))
    ELSE searchFrom(p, s, i + 1)

search(p, s) == searchFrom(p, s, 1)

\* str.strip() of a text
RECURSIVE lstrip(_)
lstrip(s) == IF s # <<>> /\ Head(s) \in Whitespace THEN lstrip(Tail(s)) ELSE s

RECURSIVE rstrip(_)
rstrip(s) ==
    IF s # <<>> /\ s[Len(s)] \in Whitespace THEN rstrip(SubSeq(s, 1, Len(s) - 1)) ELSE s

stripped(s) == rstrip(lstrip(s))

\* an optional name: None, or the text of the name
NoName == [t |-> "none", s |-> <<>>]
Name(s) == [t |-> "str", s |-> s]

\* "(.*)"
QuotedRe == Pattern(Chr("\""), Star(Set(AnyChar)), Chr("\""))

\* [n/m] or (n/m)
Counter ==
    <<Set({"[", "("}), Plus(Set(Digits)), Chr("/"), Plus(Set(Digits)), Set({"]", ")"})>>

\* ^(?:\[|\()(?:\d+/\d+)(?:\]|\))\s-\s(.*)\syEnc\s(?:\[|\()(?:\d+/\d+)(?:\]|\))\s\d+
StrictRe ==
    Pattern(Cat(Counter \o <<Set(Whitespace), Chr("-"), Set(Whitespace)>>),
            Star(Set(AnyChar)),
            Cat(<<Set(Whitespace), Chr("y"), Chr("E"), Chr("n"), Chr("c"), Set(Whitespace)>>
                    \o Counter \o <<Set(Whitespace), Plus(Set(Digits))>>))

\* [\w\-+()' .,] and [\w\-/+()' .,]
NameChars == WordChars \cup {"-", "+", "(", ")", "'", " ", ".", ","}
TagChars == NameChars \cup {"/"}

\* \b([\w\-+()' .,]+(?:\[[\w\-/+()' .,]*][\w\-+()' .,]*)*\.[A-Za-z0-9]{2,4})\b
LooseRe ==
    Pattern(Boundary,
            Cat(<<Plus(Set(NameChars)),
                  Star(Cat(<<Chr("["), Star(Set(TagChars)), Chr("]"), Star(Set(NameChars))>>)),
                  Chr("."),
                  Rep(Set(Letters \cup Digits), 2, 4)>>),
            Boundary)

\* filename = parsed.group(1).strip(); filename if filename else None
Filename(parsed) ==
    IF stripped(parsed[1]) # <<>> THEN Name(stripped(parsed[1])) ELSE NoName

\* the function that returns None as soon as a pattern matches without a name
extract_filename_from_subject(subject) ==
    IF search(QuotedRe, subject) # <<>> THEN Filename(search(QuotedRe, subject))
    ELSE IF fullmatch(StrictRe, subject) # <<>> THEN Filename(fullmatch(StrictRe, subject))
    ELSE IF search(LooseRe, subject) # <<>> THEN Filename(search(LooseRe, subject))
    ELSE NoName

\* whether re.findall(re, s) finds a match
Found(re, s) == \E i \in 1..Len(s) + 1 : Ends(re, s, i) # <<>>

\* len(re.findall(re, s)) from position i on: the matches are taken from
\* left to right and do not overlap
RECURSIVE CountFrom(_, _, _)
CountFrom(re, s, i) ==
    IF i > Len(s) + 1 THEN 0
    ELSE IF Ends(re, s, i) = <<>> THEN CountFrom(re, s, i + 1)
    ELSE IF Ends(re, s, i)[1] = i THEN 1 + CountFrom(re, s, i + 1)
    ELSE 1 + CountFrom(re, s, Ends(re, s, i)[1])

\* sum(1 for c in filestem if c in cs)
CountOf(filestem, cs) == Cardinality({i \in 1..Len(filestem) : filestem[i] \in cs})

\* c.isnumeric(), c.isupper(), c.islower() and the space-like symbols
decimals(filestem) == CountOf(filestem, Digits)
upperchars(filestem) == CountOf(filestem, UpperChars)
lowerchars(filestem) == CountOf(filestem, LowerChars)
spacesdots(filestem) == CountOf(filestem, {" ", ".", "_"})

\* ^[a-f0-9]{32}$
Hex32(filestem) == Finishes(Rep(Set(HexChars), 32, 32), filestem, 1, TRUE)

\* ^[a-f0-9.]{40,}$
HexDots40(filestem) == Finishes(Rep(Set(HexChars \cup {"."}), 40, -1), filestem, 1, TRUE)

\* [a-f0-9]{30} is found, and \[\w+\] at least twice
HexRunInBrackets(filestem) ==
    /\ Found(Rep(Set(HexChars), 30, 30), filestem)
    /\ CountFrom(Cat(<<Chr("["), Plus(Set(WordChars)), Chr("]")>>), filestem, 1) >= 2

\* ^abc\.xyz
AbcXyz(filestem) ==
    Ends(Cat(<<Chr("a"), Chr("b"), Chr("c"), Chr("."), Chr("x"), Chr("y"), Chr("z")>>),
         filestem, 1) # <<>>

\* "Great Distro"
MixedCase(filestem) ==
    upperchars(filestem) >= 2 /\ lowerchars(filestem) >= 2 /\ spacesdots(filestem) >= 1

\* "this is a download"
Spaced(filestem) == spacesdots(filestem) >= 3

\* "Beast 2020"
Dated(filestem) ==
    /\ upperchars(filestem) + lowerchars(filestem) >= 4
    /\ decimals(filestem) >= 4
    /\ spacesdots(filestem) >= 1

\* "Catullus": filestem[0].isupper() and lowerchars > 2 and
\* upperchars / lowerchars <= 0.25
Capitalized(filestem) ==
    /\ filestem[1] \in UpperChars
    /\ lowerchars(filestem) > 2
    /\ 4 * upperchars(filestem) <= lowerchars(filestem)

\* a function that looks at the clear names first
clear_names_first(filestem) ==
    IF filestem = <<>> THEN TRUE
    ELSE IF MixedCase(filestem) THEN FALSE
    ELSE IF Spaced(filestem) THEN FALSE
    ELSE IF Dated(filestem) THEN FALSE
    ELSE IF Capitalized(filestem) THEN FALSE
    ELSE TRUE

stem_is_obfuscated(filestem) ==
    IF filestem = <<>> THEN TRUE
    ELSE IF Hex32(filestem) THEN TRUE
    ELSE IF HexDots40(filestem) THEN TRUE
    ELSE IF HexRunInBrackets(filestem) THEN TRUE
    ELSE IF AbcXyz(filestem) THEN TRUE
    ELSE IF MixedCase(filestem) THEN FALSE
    ELSE IF Spaced(filestem) THEN FALSE
    ELSE IF Dated(filestem) THEN FALSE
    ELSE IF Capitalized(filestem) THEN FALSE
    ELSE TRUE

\* the pieces of the subjects of the model: [1/1] - , yEnc (1/1) 1 after a
\* blank, a quotation mark, a.mkv and a blank
CounterChunk == <<"[", "1", "/", "1", "]", " ", "-", " ">>
YencChunk == <<" ", "y", "E", "n", "c", " ", "(", "1", "/", "1", ")", " ", "1">>
SubjectChunks == {CounterChunk, YencChunk, <<"\"">>, <<"a", ".", "m", "k", "v">>, <<" ">>}

RECURSIVE Join(_)
Join(chunks) == IF chunks = <<>> THEN <<>> ELSE Head(chunks) \o Join(Tail(chunks))

SubjectTexts == {Join(chunks) : chunks \in SeqsUpTo(SubjectChunks, MaxChunks)}

\* the pieces of the stems of the model: sixteen hexadecimal digits, three
\* dots, [a]_[b]_. , abc.xyz, Great and a blank
HexChunk ==
    <<"0", "a", "1", "c", "2", "a", "3", "c", "4", "a", "5", "c", "6", "a", "7", "f">>
StemChunks ==
    {HexChunk, <<".", ".", ".">>, <<"[", "a", "]", "_", "[", "b", "]", "_", ".">>,
     <<"a", "b", "c", ".", "x", "y", "z">>,
     <<"G", "r", "e", "a", "t">>, <<" ">>}

StemTexts == {Join(chunks) : chunks \in SeqsUpTo(StemChunks, MaxChunks)}

\* a text is given to a function of _subparsers
InitName ==
    /\ arg \in {[fn |-> "extract_filename_from_subject", text |-> s] : s \in SubjectTexts}
               \cup {[fn |-> "stem_is_obfuscated", text |-> s] : s \in StemTexts}
    /\ ret = NoRet
    /\ kinds = NoKinds
    /\ tree = <<>>
    /\ nzb = <<>>
    /\ pre = <<>>
    /\ preFs = NoFile
    /\ last = Op("init")
    /\ steps = 0
    /\ fs = NoFile
    /\ out = NoOut
    /\ doc = NoDoc
    /\ result = NoResult
    /\ path = NoPath
    /\ json = NoJson
    /\ back = NoResult
    /\ sizes = NoSizes

\* extract_filename_from_subject(arg.text)
ExtractFilename ==
    /\ arg.fn = "extract_filename_from_subject"
    /\ ~ret.done
    /\ ret' = [done |-> TRUE, name |-> extract_filename_from_subject(arg.text), flag |-> FALSE]
    /\ UNCHANGED <<editorVars, parseVars, arg, kinds>>

\* stem_is_obfuscated(arg.text)
StemIsObfuscated ==
    /\ arg.fn = "stem_is_obfuscated"
    /\ ~ret.done
    /\ ret' = [done |-> TRUE, name |-> NoName, flag |-> stem_is_obfuscated(arg.text)]
    /\ UNCHANGED <<editorVars, parseVars, arg, kinds>>

NextName == ExtractFilename \/ StemIsObfuscated

SpecName == InitName /\ [][NextName]_vars

(***************************************************************************)
(* The kinds of files: File.name, File.is_par2, File.is_rar and what an    *)
(* Nzb says of its files.                                                  *)
(***************************************************************************)
\* the characters of the subjects of the model
Chars(subject) ==
    CASE subject = "file" -> <<"f", "i", "l", "e">>
      [] subject = "file2" -> <<"f", "i", "l", "e", "2">>
      [] subject = "file10" -> <<"f", "i", "l", "e", "1", "0">>
      [] subject = "a.rar" -> <<"a", ".", "r", "a", "r">>
      [] subject = "a.r01" -> <<"a", ".", "r", "0", "1">>
      [] subject = "a.PAR2" -> <<"a", ".", "P", "A", "R", "2">>
      [] subject = "\"a.par2\" b.rar" ->
            <<"\"", "a", ".", "p", "a", "r", "2", "\"", " ", "b", ".", "r", "a", "r">>

\* the characters in the order of their code points
CodePoints ==
    <<" ", "\"", "'", "(", ")", "+", ",", "-", ".", "/",
      "0", "1", "2", "3", "4", "5", "6", "7", "8", "9",
      "A", "B", "C", "D", "E", "F", "G", "H", "I", "J", "K", "L", "M",
      "N", "O", "P", "Q", "R", "S", "T", "U", "V", "W", "X", "Y", "Z",
      "[", "]", "_",
      "a", "b", "c", "d", "e", "f", "g", "h", "i", "j", "k", "l", "m",
      "n", "o", "p", "q", "r", "s", "t", "u", "v", "w", "x", "y", "z">>
Ord(c) == CHOOSE i \in 1..Len(CodePoints) : CodePoints[i] = c

\* the key of a str in the order of str
StrKey(s) == [i \in 1..Len(s) |-> Ord(s[i])]

\* "([^"]*)"
QuotedNameRe == Pattern(Chr("\""), Star(Set(Alphabet \ {"\""})), Chr("\""))

\* File.name: the quoted text, else the loose token, else ""
File_name(self) ==
    IF search(QuotedNameRe, Chars(self.subject)) # <<>>
    THEN stripped(search(QuotedNameRe, Chars(self.subject))[1])
    ELSE IF search(LooseRe, Chars(self.subject)) # <<>>
    THEN stripped(search(LooseRe, Chars(self.subject))[1])
    ELSE <<>>

\* re.search of a pattern that ends with $
EndsWith(re, s) == \E i \in 1..Len(s) + 1 : Finishes(re, s, i, TRUE)

\* \.par2$ with re.IGNORECASE
Par2Re == Cat(<<Chr("."), Set({"p", "P"}), Set({"a", "A"}), Set({"r", "R"}), Chr("2")>>)

\* \.rar$ and \.[rstuv]\d\d$ with re.IGNORECASE
RarRe == Cat(<<Chr("."), Set({"r", "R"}), Set({"a", "A"}), Set({"r", "R"})>>)
VolumeRe ==
    Cat(<<Chr("."), Set({"r", "s", "t", "u", "v", "R", "S", "T", "U", "V"}),
          Set(Digits), Set(Digits)>>)

\* File.is_par2
File_is_par2(self) ==
    IF File_name(self) = <<>> THEN FALSE ELSE EndsWith(Par2Re, File_name(self))

\* File.is_rar
File_is_rar(self) ==
    IF File_name(self) = <<>> THEN FALSE
    ELSE EndsWith(RarRe, File_name(self)) \/ EndsWith(VolumeRe, File_name(self))

\* Nzb.par2_files: sorted(..., key=lambda f: f.subject) of the par2 files
BySubject(files) ==
    SortNat([i \in 1..Len(files) |-> <<StrKey(Chars(files[i].subject)), files[i]>>])
par2_files(self) ==
    [i \in 1..Len(SelectSeq(self.files, File_is_par2)) |->
        BySubject(SelectSeq(self.files, File_is_par2))[i][2]]

\* Nzb.has_rar, Nzb.is_rar and Nzb.has_par2: any() and all() over the files
Nzb_has_rar(self) == \E i \in 1..Len(self.files) : File_is_rar(self.files[i])
Nzb_is_rar(self) == \A i \in 1..Len(self.files) : File_is_rar(self.files[i])
Nzb_has_par2(self) == \E i \in 1..Len(self.files) : File_is_par2(self.files[i])

\* the <file> elements of the documents: a rar file, a volume of one, a
\* par2 file, a file whose quoted name is a par2 file, and a file of no kind
KindFiles ==
    { XmlFile(AllAttrs(s), <<OneGroup, OneSegment>>) :
        s \in {"a.rar", "a.r01", "a.PAR2", "\"a.par2\" b.rar", "file2"} }

KindDocs == { XmlRoot(<<>>, f) : f \in SeqsUpTo(KindFiles, MaxFiles) }

\* a document given to from_str, or a JSON document given to from_json
InitKind ==
    /\ \/ doc \in KindDocs /\ json = NoJson
       \/ doc = NoDoc /\ json \in JsonInputs
    /\ path = NoPath
    /\ result = NoResult
    /\ back = NoResult
    /\ sizes = NoSizes
    /\ arg = NoText
    /\ ret = NoRet
    /\ kinds = NoKinds
    /\ tree = <<>>
    /\ nzb = <<>>
    /\ pre = <<>>
    /\ preFs = NoFile
    /\ last = Op("init")
    /\ steps = 0
    /\ fs = NoFile
    /\ out = NoOut

\* nzb.is_rar(), nzb.has_rar(), nzb.has_par2() and nzb.par2_files are read
Kinds ==
    /\ result.exc = None \/ back.exc = None
    /\ ~kinds.read
    /\ kinds' = [read |-> TRUE, is_rar |-> Nzb_is_rar(TheNzb),
                 has_rar |-> Nzb_has_rar(TheNzb), has_par2 |-> Nzb_has_par2(TheNzb),
                 par2_files |-> par2_files(TheNzb)]
    /\ UNCHANGED <<editorVars, parseVars, arg, ret>>

NextKind == FromStr \/ FromJson \/ Kinds

SpecKind == InitKind /\ [][NextKind]_vars

(***************************************************************************)
(* Vocabulary of the properties.                                           *)
(***************************************************************************)
KnownTypes == {"title", "category", "password", "tag"}

\* the <meta> entries of <head> whose type attribute is exactly ty
OfType(t, ty) == SelectSeq(HeadKids(t), LAMBDA e : e.tag = "meta" /\ e.type = ty)

\* the texts of a sequence of entries
Texts(entries) == [i \in 1..Len(entries) |-> entries[i].text]

\* how many times e occurs in a sequence
Count(entries, e) == Cardinality({i \in 1..Len(entries) : entries[i] = e})

Range(entries) == {entries[i] : i \in 1..Len(entries)}

\* the <file> elements of a tree
Files(t) == SelectSeq(t, LAMBDA e : e.tag = "file")

\* the argument an operation was called with for a field type
ArgOf(o, ty) ==
    CASE ty = "title" -> IF o.title = None THEN NoArg ELSE StrArg(o.title)
      [] ty = "category" -> IF o.category = None THEN NoArg ELSE StrArg(o.category)
      [] ty = "password" -> o.passwords
      [] ty = "tag" -> o.tags

\* an argument is provided when it is not None; its values are the string
\* itself, or the members of the collection
Provided(a) == a.kind # "none"
Values(a) == IF a.kind = "str" THEN <<a.str>> ELSE a.list
NonEmpty(a) == (a.kind = "str" /\ a.str # "") \/ (a.kind = "list" /\ a.list # <<>>)

C2Original ==
    (last.op = "set" /\ \A ty \in KnownTypes : ~Provided(ArgOf(last, ty)))
        => to_str(nzb, tree) = to_str(nzb, pre)

(***************************************************************************)
(* C3.  The order of the <meta> entries after set() and append().          *)
(***************************************************************************)
Known(e) == e.tag = "meta" /\ e.type \in KnownTypes

\* the place of a known type in the hierarchy title, category, password, tag
Rank(e) ==
    CASE e.type = "title" -> 1
      [] e.type = "category" -> 2
      [] e.type = "password" -> 3
      [] e.type = "tag" -> 4

\* the entries of the known types follow the hierarchy
HierarchyOrdered(kids) ==
    \A i, j \in 1..Len(kids) :
        (i < j /\ Known(kids[i]) /\ Known(kids[j])) => Rank(kids[i]) <= Rank(kids[j])

\* a title entry, when there is one, is the first child of <head>
TitleFirst(kids) ==
    (\E i \in 1..Len(kids) : Known(kids[i]) /\ kids[i].type = "title")
        => (Known(kids[1]) /\ kids[1].type = "title")

\* every entry of another type, or without type, precedes the known ones
OthersFirst(kids) ==
    \A i, j \in 1..Len(kids) : (i < j /\ Known(kids[i])) => Known(kids[j])

\* passwords and tags keep the insertion order: the entries that stay, then
\* the values given, in the order given
InsertionOrder ==
    \A ty \in {"password", "tag"} :
        LET a == ArgOf(last, ty)
            kept == IF last.op = "set" /\ NonEmpty(a)
                    THEN <<>> ELSE Texts(OfType(pre, ty))
            added == IF NonEmpty(a) THEN Values(a) ELSE <<>>
        IN  Texts(OfType(tree, ty)) = kept \o added

MetasKept ==
    \A e \in Range(FindAllMeta(HeadKids(pre))) :
        Count(HeadKids(tree), e) >= Count(HeadKids(pre), e)

\* C4 as stated: after append() every earlier <meta> entry is still there,
\* the password (tag) entries are more by exactly the number of provided
\* passwords (tags), and the document has a <head>.
C4Original ==
    last.op = "append" =>
        /\ MetasKept
        /\ \A ty \in {"password", "tag"} :
              Len(OfType(tree, ty)) = Len(OfType(pre, ty))
                + (IF Provided(ArgOf(last, ty)) THEN Len(Values(ArgOf(last, ty))) ELSE 0)
        /\ FindHead(tree) # 0

\* C4 as amended: after append() every earlier <meta> entry is still
\* there, the password (tag) entries are more by exactly the number of
\* values of a non-empty passwords (tags) argument, an empty string or
\* collection adding nothing, and the document has a <head>.
C4Amended ==
    last.op = "append" =>
        /\ MetasKept
        /\ \A ty \in {"password", "tag"} :
              Len(OfType(tree, ty)) = Len(OfType(pre, ty))
                + (IF NonEmpty(ArgOf(last, ty)) THEN Len(Values(ArgOf(last, ty))) ELSE 0)
        /\ FindHead(tree) # 0

\* append(passwords=["x", "y"]) on a document without <head>
C4Witness ==
    /\ last.op = "append"
    /\ last.passwords = ListArg(<<"x", "y">>)
    /\ FindHead(pre) = 0
    /\ HeadKids(tree) = <<Meta("password", "x"), Meta("password", "y")>>

(***************************************************************************)
(* C5.  NzbMetaEditor.remove(key).                                         *)
(***************************************************************************)
Matches(e, k) == e.tag = "meta" /\ e.type = k

\* C5: after remove(key) no <meta> whose type is exactly key is left, every
\* other child of <head> is there as often as before and in the same
\* order, a key that matches nothing leaves the tree as it was, and a
\* <head> that was there is still there.
C5Theorem ==
    last.op = "remove" =>
        /\ \A e \in Range(HeadKids(pre)) \cup Range(HeadKids(tree)) :
              Count(HeadKids(tree), e) =
                 IF Matches(e, last.key) THEN 0 ELSE Count(HeadKids(pre), e)
        /\ HeadKids(tree) =
              SelectSeq(HeadKids(pre), LAMBDA e : e \in Range(HeadKids(tree)))
        /\ (\A e \in Range(HeadKids(pre)) : ~Matches(e, last.key)) => tree = pre
        /\ FindHead(tree) = FindHead(pre)
        /\ Files(tree) = Files(pre)

\* remove("title") on a head that holds a "Title" and a "title" entry: the
\* first stays, and the head, emptied of its known entries, is still there
C5Witness ==
    /\ last.op = "remove"
    /\ last.key = "title"
    /\ HeadKids(pre) = <<Meta("Title", "a"), Meta("title", "a")>>
    /\ HeadKids(tree) = <<Meta("Title", "a")>>
    /\ FindHead(tree) # 0

(***************************************************************************)
(* C6.  remove("password") followed by append(passwords="x").              *)
(***************************************************************************)
\* C6: whenever append(passwords="x") is applied right after
\* remove("password"), the head then holds exactly one password entry, with
\* text "x", and the title, category and tag entries are those the document
\* had before the remove, however many password entries it had.
C6Theorem ==
    [][(last.op = "remove" /\ last.key = "password" /\ DoAppend(StrArg("x"), NoArg))
        => /\ Texts(OfType(tree', "password")) = <<"x">>
           /\ \A ty \in {"title", "category", "tag"} :
                 OfType(tree', ty) = OfType(pre, ty)]_vars

\* remove("password") has acted on a head with two password entries and
\* the append can follow
C6Witness ==
    /\ last.op = "remove"
    /\ last.key = "password"
    /\ Len(OfType(pre, "password")) = 2
    /\ OfType(tree, "password") = <<>>
    /\ steps < MaxOps

(***************************************************************************)
(* C7.  NzbMetaEditor.clear.                                               *)
(***************************************************************************)
\* C7: after clear() the document has no <head>, the children of the root
\* are the other children it had, in the same order, and a document that
\* had no <head> is as it was.
C7Theorem ==
    last.op = "clear" =>
        /\ FindHead(tree) = 0
        /\ tree = SelectSeq(pre, LAMBDA e : e.tag # "head")
        /\ Files(tree) = Files(pre)
        /\ FindHead(pre) = 0 => tree = pre

\* clear() on a document whose <head> has entries
C7Witness ==
    /\ last.op = "clear"
    /\ HeadKids(pre) # <<>>
    /\ FindHead(tree) = 0
    /\ Files(tree) = InitFiles

(***************************************************************************)
(* C8.  NzbMetaEditor.to_file and an existing file.                        *)
(***************************************************************************)
\* C8: to_file() on a path that is a file raises FileExistsError and leaves
\* the file as it was when overwrite is false, and makes the file's content
\* the to_str() output when overwrite is true.
C8Theorem ==
    (last.op = "to_file" /\ preFs.exists) =>
        IF ~last.overwrite
        THEN /\ out = [kind |-> "raise", value |-> <<"FileExistsError">>]
             /\ fs = preFs
        ELSE /\ out.kind = "path"
             /\ fs = FileOf(to_str(nzb, tree))

\* to_file(path) on an existing file, without overwrite
C8Witness ==
    /\ last.op = "to_file"
    /\ ~last.overwrite
    /\ preFs = OldFile
    /\ out.kind = "raise"
    /\ fs = OldFile

(***************************************************************************)
(* C9.  The DOCTYPE declaration in the output of to_str.                   *)
(***************************************************************************)
\* C9 as stated: the output of to_str() holds, on the line after the XML
\* declaration, the DOCTYPE declaration of the source text verbatim when
\* the source text has one, and no DOCTYPE line when it has none.
C9Original ==
    out.kind = "str" =>
        out.value.header =
            IF Declaration(nzb) = <<>>
            THEN <<<<XmlDecl>>>>
            ELSE <<<<XmlDecl>>, Declaration(nzb)>>


(***************************************************************************)
(* C10: parsing a well-formed document that has no <file> element raises   *)
(* InvalidNzbError with the message of the missing 'file' element, and     *)
(* returns no Nzb.  The code does so only when parse_metadata, which runs  *)
(* first, returns: C10Original states the claim as written.                *)
(***************************************************************************)
NoFileElement(d) == \A i \in 1..Len(d.kids) : d.kids[i].name # "file"

C10Original ==
    (Parsed /\ NoFileElement(doc))
        => (result.exc = "InvalidNzbError" /\ result.msg = MsgFile)


(***************************************************************************)
(* Vocabulary of the properties of the parser: what a source document      *)
(* holds, read from its elements and not from the outcome of the parse.    *)
(***************************************************************************)
\* the <file> elements of a document, in the order of the document
DocFiles(d) == SelectSeq(d.kids, LAMBDA e : e.name = "file")

\* the children of element e that are named n
Kids(e, n) == SelectSeq(e.kids, LAMBDA k : k.name = n)

\* whether element e has the attribute named a ("@poster", ...)
HasAttr(e, a) == \E i \in 1..Len(e.attrs) : e.attrs[i][1] = a

\* the value of the attribute
AttrValue(e, a) == e.attrs[CHOOSE i \in 1..Len(e.attrs) : e.attrs[i][1] = a][2]

\* the <group> and the <segment> elements of a <file>
GroupElems(f) ==
    IF Kids(f, "groups") = <<>> THEN <<>> ELSE Kids(Kids(f, "groups")[1], "group")
SegmentElems(f) ==
    IF Kids(f, "segments") = <<>> THEN <<>> ELSE Kids(Kids(f, "segments")[1], "segment")

\* a <segment> with integer bytes and number attributes and a text
UsableSegment(e) ==
    /\ HasAttr(e, "@bytes") /\ IsInt(AttrValue(e, "@bytes"))
    /\ HasAttr(e, "@number") /\ IsInt(AttrValue(e, "@number"))
    /\ e.text # None

\* the groups of the file are valid: every <group> has a text, and there is
\* one
ValidGroups(f) ==
    /\ GroupElems(f) # <<>>
    /\ \A i \in 1..Len(GroupElems(f)) : GroupElems(f)[i].text # None

\* the segments of the file are valid: every <segment> has an attribute,
\* and one of them is usable
ValidSegments(f) ==
    /\ \E i \in 1..Len(SegmentElems(f)) : UsableSegment(SegmentElems(f)[i])
    /\ \A i \in 1..Len(SegmentElems(f)) : SegmentElems(f)[i].attrs # <<>>

\* the required attributes of a <file> that are missing, with the date
\* that is no integer
BadAttrs(f) ==
    {a \in {"poster", "subject"} :
        ~HasAttr(f, IF a = "poster" THEN "@poster" ELSE "@subject")}
    \cup (IF HasAttr(f, "@date") /\ IsTimestamp(AttrValue(f, "@date")) THEN {} ELSE {"date"})

\* a <file> that has all it needs
ValidFile(f) == ValidGroups(f) /\ ValidSegments(f) /\ BadAttrs(f) = {}

\* the metadata of the document is of the usual form: no <head>, or a
\* <head> of <meta> elements that have a type attribute
UsualHead(d) ==
    \A i \in 1..Len(d.kids) :
        d.kids[i].name = "head" =>
            /\ d.kids[i].kids # <<>>
            /\ \A j \in 1..Len(d.kids[i].kids) : d.kids[i].kids[j].attrs # <<>>

\* the index of the first <file> of the document that is not valid, 0 when
\* all are
FirstInvalid(d) ==
    LET bad == {i \in 1..Len(DocFiles(d)) : ~ValidFile(DocFiles(d)[i])}
    IN  IF bad = {} THEN 0 ELSE CHOOSE i \in bad : \A j \in bad : i <= j

(***************************************************************************)
(* C11: when the first <file> of a document that is not valid has valid    *)
(* groups and segments and lacks one of poster, date and subject, or has a *)
(* date that is no integer, parsing raises InvalidNzbError with a message  *)
(* that names an attribute this file lacks, hence the one it lacks when it *)
(* is the only one; the metadata of the document being of the usual form.  *)
(***************************************************************************)
C11Theorem ==
    (Parsed /\ UsualHead(doc) /\ FirstInvalid(doc) # 0) =>
        LET f == DocFiles(doc)[FirstInvalid(doc)]
        IN  (ValidGroups(f) /\ ValidSegments(f)) =>
                /\ result.exc = "InvalidNzbError"
                /\ \E a \in BadAttrs(f) : result.msg = MsgAttr(a)
                /\ Cardinality(BadAttrs(f)) = 1 =>
                      result.msg = MsgAttr(CHOOSE a \in BadAttrs(f) : TRUE)

\* a valid file, then a file that lacks only its date: the error names
\* 'date'
C11Witness ==
    /\ Parsed
    /\ UsualHead(doc)
    /\ Len(DocFiles(doc)) = 2
    /\ ValidFile(DocFiles(doc)[1])
    /\ ~HasAttr(DocFiles(doc)[2], "@date")
    /\ BadAttrs(DocFiles(doc)[2]) = {"date"}
    /\ result.exc = "InvalidNzbError"
    /\ result.msg = MsgAttr("date")


(***************************************************************************)
(* C12: a <segment> without a bytes or a number attribute, with one that   *)
(* is no integer, or without text is dropped without an error: when every  *)
(* file of the document has a usable segment, and all else is valid, the   *)
(* parse succeeds and the segments of every file are its usable segments.  *)
(* C12Original states the claim as written; the code raises TypeError for  *)
(* a <segment> that has no attribute at all.                               *)
(***************************************************************************)
\* the Segment of a usable <segment>
SegmentOfElem(e) ==
    SegmentOf(IntTable[AttrValue(e, "@bytes")], IntTable[AttrValue(e, "@number")], e.text)

\* the Segments of the usable <segment> elements of a <file>
UsableOf(f) ==
    {SegmentOfElem(SegmentElems(f)[i]) :
        i \in {j \in 1..Len(SegmentElems(f)) : UsableSegment(SegmentElems(f)[j])}}

\* every file is valid but for segments that are not usable, beside one
\* that is
ValidButSegments(d) ==
    /\ UsualHead(d)
    /\ DocFiles(d) # <<>>
    /\ \A i \in 1..Len(DocFiles(d)) :
          /\ ValidGroups(DocFiles(d)[i])
          /\ BadAttrs(DocFiles(d)[i]) = {}
          /\ UsableOf(DocFiles(d)[i]) # {}

C12Original ==
    (Parsed /\ ValidButSegments(doc)) =>
        /\ result.exc = None
        /\ {Range(result.val.files[i].segments) : i \in 1..Len(result.val.files)}
              = {UsableOf(DocFiles(doc)[i]) : i \in 1..Len(DocFiles(doc))}


(***************************************************************************)
(* C13: when a <file> has no <segments> block, or none of its <segment>    *)
(* elements is usable, parsing the document raises InvalidNzbError for the *)
(* 'segments' element.  C13Original states it for the first file of the    *)
(* document that is not valid, its groups being valid and the metadata of  *)
(* the usual form, which is the reading most favourable to the claim; the  *)
(* code raises TypeError when a <segment> has no attribute at all.         *)
(***************************************************************************)
\* no <segment> of the file is usable
NoSegmentSurvives(f) ==
    \A i \in 1..Len(SegmentElems(f)) : ~UsableSegment(SegmentElems(f)[i])

C13Original ==
    (Parsed /\ UsualHead(doc) /\ FirstInvalid(doc) # 0) =>
        LET f == DocFiles(doc)[FirstInvalid(doc)]
        IN  (ValidGroups(f) /\ NoSegmentSurvives(f)) =>
                /\ result.exc = "InvalidNzbError"
                /\ result.msg = MsgSegments


(***************************************************************************)
(* C14: every File of every Nzb that Nzb.from_str returns has groups that  *)
(* are not empty and ascending (in the natural order of natsorted), and    *)
(* segments that are not empty and ascending by number.                    *)
(***************************************************************************)
\* the texts of s ascend in the natural order
AscendingTexts(s) ==
    \A i, j \in 1..Len(s) : i < j => ~KeyLess(NatKey(s[j]), NatKey(s[i]))

\* the segments of s ascend by number
AscendingNumbers(s) ==
    \A i, j \in 1..Len(s) : i < j => s[i].number <= s[j].number

\* from_str has returned an Nzb
Returned == Parsed /\ result.exc = None

C14Theorem ==
    Returned =>
        \A i \in 1..Len(result.val.files) :
            /\ result.val.files[i].groups # <<>>
            /\ AscendingTexts(result.val.files[i].groups)
            /\ result.val.files[i].segments # <<>>
            /\ AscendingNumbers(result.val.files[i].segments)

\* an Nzb is returned for a document with a file whose groups and segments
\* descend in the document
C14Witness ==
    /\ Returned
    /\ \E i \in 1..Len(DocFiles(doc)) :
          /\ Len(GroupElems(DocFiles(doc)[i])) = 2
          /\ KeyLess(NatKey(GroupElems(DocFiles(doc)[i])[2].text),
                     NatKey(GroupElems(DocFiles(doc)[i])[1].text))
          /\ Len(SegmentElems(DocFiles(doc)[i])) = 2
          /\ IntTable[AttrValue(SegmentElems(DocFiles(doc)[i])[2], "@number")]
                < IntTable[AttrValue(SegmentElems(DocFiles(doc)[i])[1], "@number")]
    /\ \E i \in 1..Len(result.val.files) :
          /\ Len(result.val.files[i].groups) = 2
          /\ Len(result.val.files[i].segments) = 2


(***************************************************************************)
(* C15: the files of an Nzb are never empty: every Nzb that from_str,      *)
(* from_file or from_json returns has at least one File.  C15Original      *)
(* states the claim as written; from_json returns an Nzb without files for *)
(* a JSON document whose "files" is an empty list.                         *)
(***************************************************************************)
\* the outcome r of a constructor is an Nzb
IsNzb(r) == r.exc = None

C15Original ==
    /\ IsNzb(result) => result.val.files # <<>>
    /\ IsNzb(back) => back.val.files # <<>>


(***************************************************************************)
(* C16: the size of an Nzb is the sum of the sizes of its files, and the   *)
(* size of a File is the sum of the sizes of its segments.                 *)
(***************************************************************************)
\* the total of a sequence of numbers, from its head on
RECURSIVE Total(_)
Total(s) == IF s = <<>> THEN 0 ELSE Head(s) + Total(Tail(s))

\* the sizes of the segments of a File
SegmentSizes(f) == [i \in 1..Len(f.segments) |-> f.segments[i].size]

C16Theorem ==
    sizes.read =>
        /\ Len(sizes.files) = Len(TheNzb.files)
        /\ sizes.nzb = Total(sizes.files)
        /\ \A i \in 1..Len(TheNzb.files) :
              sizes.files[i] = Total(SegmentSizes(TheNzb.files[i]))

\* the sizes are read from an Nzb of two files, one of which has two
\* segments of different sizes
C16Witness ==
    /\ sizes.read
    /\ Len(TheNzb.files) = 2
    /\ sizes.files = <<30, 10>>
    /\ sizes.nzb = 40


(***************************************************************************)
(* C17: the files of a parsed Nzb are sorted by subject.  As written       *)
(* (C17Original): ascending in lexicographic order, and the order of       *)
(* nzb.files is the same when the <file> elements of the document are      *)
(* reversed.  As the code has it (C17Amended): ascending in the natural    *)
(* order of natsorted, where "file2" comes before "file10", and files of   *)
(* the same subject keep the order they have in the document.              *)
(***************************************************************************)
\* the lexicographic order of the subjects of the model
LexRank(subject) ==
    CASE subject = "file" -> 1
      [] subject = "file10" -> 2
      [] subject = "file2" -> 3

\* the document with its children in the reverse order
Reversed(d) ==
    [d EXCEPT !.kids = [i \in 1..Len(d.kids) |-> d.kids[Len(d.kids) + 1 - i]]]

\* the File of the i-th <file> of the document, parsed alone
SingleFile(d, i) == from_str(Elem("nzb", <<>>, <<DocFiles(d)[i]>>, None)).val.files[1]

\* the natural key of the subject of the i-th <file>
SubjectKey(d, i) == NatKey(AttrValue(DocFiles(d)[i], "@subject"))

\* the place of the i-th <file> among the sorted files: after the files of
\* a smaller key, and after the earlier files of the same key
Place(d, i) ==
    Cardinality({j \in 1..Len(DocFiles(d)) :
                    \/ KeyLess(SubjectKey(d, j), SubjectKey(d, i))
                    \/ SubjectKey(d, j) = SubjectKey(d, i) /\ j <= i})

C17Original ==
    Returned =>
        /\ \A i, j \in 1..Len(result.val.files) :
              i < j => LexRank(result.val.files[i].subject)
                          <= LexRank(result.val.files[j].subject)
        /\ from_str(Reversed(doc)).val.files = result.val.files

C17Amended ==
    Returned =>
        /\ Len(result.val.files) = Len(DocFiles(doc))
        /\ \A i \in 1..Len(DocFiles(doc)) :
              result.val.files[Place(doc, i)] = SingleFile(doc, i)

\* a document that lists "file10" before "file2" is parsed into an Nzb that
\* lists "file2" before "file10"
C17Witness ==
    /\ Returned
    /\ Len(DocFiles(doc)) = 2
    /\ AttrValue(DocFiles(doc)[1], "@subject") = "file10"
    /\ AttrValue(DocFiles(doc)[2], "@subject") = "file2"
    /\ Subjects(result.val.files) = <<"file2", "file10">>


(***************************************************************************)
(* C18: metadata is optional: a document of valid files without <head>,    *)
(* with an empty <head>, or whose <meta> entries all have an unknown or no *)
(* type attribute parses without error into the empty Meta.  C18Original   *)
(* states the claim as written; the code raises TypeError for an empty     *)
(* <head> and AttributeError for a single <meta> without attributes.       *)
(***************************************************************************)
\* the <meta> elements of the <head> of a document
DocMetas(d) ==
    IF Kids(d, "head") = <<>> THEN <<>> ELSE Kids(Kids(d, "head")[1], "meta")

\* the <meta> has no type attribute, or one that names no known field
UnknownType(e) ==
    ~HasAttr(e, "@type") \/ strip(casefold(AttrValue(e, "@type"))) \notin KnownTypes

\* the document holds no metadata of a known type
NoKnownMeta(d) == \A i \in 1..Len(DocMetas(d)) : UnknownType(DocMetas(d)[i])

\* the document has a <file>, and all its files are valid
ValidFiles(d) == DocFiles(d) # <<>> /\ FirstInvalid(d) = 0

C18Original ==
    (Parsed /\ ValidFiles(doc) /\ NoKnownMeta(doc)) =>
        /\ result.exc = None
        /\ result.val.meta = EmptyMeta


(***************************************************************************)
(* C19: for every Nzb n that the parser returns, Nzb.from_json(n.to_json())*)
(* equals n.  C19Original states the claim as written; where strftime      *)
(* writes a year before 1000 with fewer than four digits, strptime does    *)
(* not read what to_json wrote and from_json raises InvalidNzbError.       *)
(***************************************************************************)
\* the Nzb the parser returned has been written with to_json and read with
\* from_json
ReadBack == Returned /\ ~Pending(back)

C19Original == ReadBack => (IsNzb(back) /\ back.val = result.val)


(***************************************************************************)
(* C20: file-system errors and document-validity errors are kept apart.    *)
(* As written (C20Original): no failure of the file system is reported as  *)
(* InvalidNzbError.  As the code has it (C20Amended): reading a path that  *)
(* is not an existing file raises FileNotFoundError, writing to an         *)
(* existing file without overwrite raises FileExistsError, and neither of  *)
(* the two is raised for any other reason; a file that exists and cannot   *)
(* be read is reported as InvalidNzbError.                                 *)
(***************************************************************************)
\* from_file has been called and has returned or raised
Read == ~Pending(result) /\ path # NoPath

\* the last operation was a to_file that raised e
SaveRaised(e) == last.op = "to_file" /\ out = [kind |-> "raise", value |-> <<e>>]

\* the two errors of the file system that the library raises as such
FileErrors == {"FileNotFoundError", "FileExistsError"}

\* what is raised for a path that is not an existing file, and for an
\* existing file that is not to be overwritten
RaisedAsSuch ==
    /\ (Read /\ ~is_file(path)) => result.exc = "FileNotFoundError"
    /\ (last.op = "to_file" /\ preFs.exists /\ ~last.overwrite)
          => SaveRaised("FileExistsError")

\* the two errors are raised for no other reason, an invalid document
\* included
NotOtherwise ==
    /\ (Read /\ result.exc \in FileErrors)
          => (result.exc = "FileNotFoundError" /\ ~is_file(path))
    /\ (last.op = "to_file" /\ out.kind = "raise")
          => (SaveRaised("FileExistsError") /\ preFs.exists /\ ~last.overwrite)

\* the file at the path exists and the file system fails to open it
CannotOpen == path = "unreadable"

AllSegments(n) ==
    UNION {Range(n.files[i].segments) : i \in 1..Len(n.files)}

C21Original ==
    Returned =>
        \A segment \in AllSegments(result.val) :
            /\ segment.size >= 0
            /\ segment.number >= 1
            /\ segment.message_id \notin {"", None}

(***************************************************************************)
(* C22: extract_filename_from_subject returns the name of the first of the *)
(* three heuristics (quoted text, strict pattern, loose token) that yields *)
(* a name, and None only when none of the three yields a name.             *)
(* C22Original states the claim as written; the code returns None when the *)
(* quoted text is empty, whatever the later heuristics would find.         *)
(***************************************************************************)
\* extract_filename_from_subject has returned
Extracted == ret.done /\ arg.fn = "extract_filename_from_subject"

\* the name that one heuristic yields by itself
Yield(parsed) == IF parsed = <<>> THEN NoName ELSE Filename(parsed)

\* the first name of a sequence of optional names
RECURSIVE FirstName(_)
FirstName(names) ==
    IF names = <<>> THEN NoName
    ELSE IF Head(names) # NoName THEN Head(names)
    ELSE FirstName(Tail(names))

Heuristics(subject) ==
    <<Yield(search(QuotedRe, subject)),
      Yield(fullmatch(StrictRe, subject)),
      Yield(search(LooseRe, subject))>>

C22Original ==
    Extracted => ret.name = FirstName(Heuristics(arg.text))

(***************************************************************************)
(* C23: of several <meta type="title"> entries the parsed title is the     *)
(* text of the last one whose text is not empty, and the parsed category   *)
(* is the text of the last category entry.                                 *)
(* C23Original states the claim as written; in the code a title entry      *)
(* without text sets the title to None, whatever an earlier entry held.    *)
(***************************************************************************)
\* the <meta> entries of the document whose type names the field ty
MetasOf(d, ty) ==
    SelectSeq(DocMetas(d),
              LAMBDA e : HasAttr(e, "@type") /\ strip(casefold(AttrValue(e, "@type"))) = ty)

\* the last text of the entries that is not empty, None when there is none
RECURSIVE LastNonEmpty(_)
LastNonEmpty(entries) ==
    IF entries = <<>> THEN None
    ELSE IF entries[Len(entries)].text \notin {None, ""} THEN entries[Len(entries)].text
    ELSE LastNonEmpty(SubSeq(entries, 1, Len(entries) - 1))

\* the text of the last entry, None when there is none
LastText(entries) == IF entries = <<>> THEN None ELSE entries[Len(entries)].text

C23Original ==
    Returned =>
        /\ result.val.meta.title = LastNonEmpty(MetasOf(doc, "title"))
        /\ result.val.meta.category = LastText(MetasOf(doc, "category"))

(***************************************************************************)
(* C24: a <file> with at least one <group> that has a text parses as far   *)
(* as its groups go: the empty <group> elements beside it raise no error   *)
(* and are not among the groups of the File; the 'groups' error is raised  *)
(* only when a file has no <group> with a text.                            *)
(* C24Original states the claim as written; the code keeps the None of an  *)
(* empty <group> in the list, and the conversion to a File rejects it.     *)
(***************************************************************************)
\* the file has a <group> with a text
HasGroup(f) == \E i \in 1..Len(GroupElems(f)) : GroupElems(f)[i].text # None

\* the file lacks nothing but, possibly, the text of some of its groups
ValidButGroups(f) == HasGroup(f) /\ ValidSegments(f) /\ BadAttrs(f) = {}

C24Original ==
    (Parsed /\ UsualHead(doc) /\ DocFiles(doc) # <<>>) =>
        /\ (\A i \in 1..Len(DocFiles(doc)) : ValidButGroups(DocFiles(doc)[i])) =>
              /\ result.exc = None
              /\ \A i \in 1..Len(result.val.files) :
                    None \notin Range(result.val.files[i].groups)
        /\ result.msg = MsgGroups =>
              \E i \in 1..Len(DocFiles(doc)) : ~HasGroup(DocFiles(doc)[i])

(***************************************************************************)
(* C25: the valid segments of one file that have the same number are all   *)
(* kept, and come in the segments of the File in the order they have in    *)
(* the document: every File of the Nzb is the File of a <file> of the      *)
(* document, and every <file> has its File, in the sense that for every    *)
(* number the segments of the File with that number are the usable         *)
(* <segment> elements of the <file> with that number, in their order.      *)
(***************************************************************************)
\* the Segments of the usable <segment> elements of a <file>, in the order
\* of the document
UsableSeq(f) ==
    LET usable == SelectSeq(SegmentElems(f), UsableSegment)
    IN  [i \in 1..Len(usable) |-> SegmentOfElem(usable[i])]

\* the segments of s that have the number n, in their order
WithNumber(s, n) == SelectSeq(s, LAMBDA segment : segment.number = n)

\* the File keeps, for every number, the usable segments of the <file>
KeepsInOrder(f, file) ==
    /\ file.subject = AttrValue(f, "@subject")
    /\ Len(file.segments) = Len(UsableSeq(f))
    /\ \A n \in {UsableSeq(f)[i].number : i \in 1..Len(UsableSeq(f))} :
          WithNumber(file.segments, n) = WithNumber(UsableSeq(f), n)

C25Theorem ==
    Returned =>
        /\ \A i \in 1..Len(result.val.files) :
              \E j \in 1..Len(DocFiles(doc)) :
                  KeepsInOrder(DocFiles(doc)[j], result.val.files[i])
        /\ \A j \in 1..Len(DocFiles(doc)) :
              \E i \in 1..Len(result.val.files) :
                  KeepsInOrder(DocFiles(doc)[j], result.val.files[i])

\* an Nzb is returned for a <file> with two usable segments of the number 1,
\* id2 before id1, and both are segments of its File, id2 before id1
C25Witness ==
    /\ Returned
    /\ \E j \in 1..Len(DocFiles(doc)) :
          /\ Len(WithNumber(UsableSeq(DocFiles(doc)[j]), 1)) = 2
          /\ WithNumber(UsableSeq(DocFiles(doc)[j]), 1)[1].message_id = "id2"
    /\ \E i \in 1..Len(result.val.files) :
          /\ Len(WithNumber(result.val.files[i].segments, 1)) = 2
          /\ WithNumber(result.val.files[i].segments, 1)[1].message_id = "id2"
          /\ WithNumber(result.val.files[i].segments, 1)[2].message_id = "id1"

(***************************************************************************)
(* C26: stem_is_obfuscated looks at its rules in a fixed order and the     *)
(* first that matches decides: an empty stem is obfuscated; a stem of one  *)
(* of the certainly obfuscated forms is obfuscated, also when it has a     *)
(* signal of a clear name; a stem of no such form with a signal of a clear *)
(* name is not obfuscated; a stem that matches no rule is obfuscated.      *)
(***************************************************************************)
\* stem_is_obfuscated has returned
Classified == ret.done /\ arg.fn = "stem_is_obfuscated"

\* the stem has one of the certainly obfuscated forms
CertainlyObfuscated(stem) ==
    Hex32(stem) \/ HexDots40(stem) \/ HexRunInBrackets(stem) \/ AbcXyz(stem)

\* the stem has a signal of a clear name
ClearName(stem) ==
    stem # <<>> /\ (MixedCase(stem) \/ Spaced(stem) \/ Dated(stem) \/ Capitalized(stem))

C26Theorem ==
    Classified =>
        /\ arg.text = <<>> => ret.flag
        /\ CertainlyObfuscated(arg.text) => ret.flag
        /\ (~CertainlyObfuscated(arg.text) /\ ClearName(arg.text)) => ~ret.flag
        /\ (~CertainlyObfuscated(arg.text) /\ ~ClearName(arg.text)) => ret.flag

\* a stem that starts with abc.xyz and has three separators has been found
\* obfuscated
C26Witness ==
    /\ Classified
    /\ AbcXyz(arg.text)
    /\ Spaced(arg.text)
    /\ ret.flag

(***************************************************************************)
(* C27: set, append, remove, sort and clear change nothing outside <head>: *)
(* after each of them the children of the root other than <head>, the      *)
(* <file> elements among them, are those it had before, in the same order; *)
(* hence the same holds after any sequence of them.                        *)
(***************************************************************************)
\* the children of the root that are no <head>
Outside(t) == SelectSeq(t, LAMBDA e : e.tag # "head")

C27Theorem ==
    last.op \in {"set", "append", "remove", "sort", "clear"} =>
        /\ Outside(tree) = Outside(pre)
        /\ Files(tree) = Files(pre)
        /\ Files(tree) = InitFiles

\* a second operation, a set() that had to create the <head>, has left the
\* two <file> elements in place
C27Witness ==
    /\ last.op = "set"
    /\ steps = MaxOps
    /\ FindHead(pre) = 0
    /\ FindHead(tree) = 1
    /\ Files(tree) = <<FileElem("f1"), FileElem("f2")>>

(***************************************************************************)
(* C28: sort, set and append keep every child of <head> that they are not  *)
(* asked to replace: a child whose type is none of the fields the call     *)
(* provides, a child that is no <meta> included, is still a child of       *)
(* <head> after the call.                                                  *)
(* C28Original states the claim as written; sort() rebuilds <head> from    *)
(* its <meta> children only, and set() and append() end with sort().       *)
(***************************************************************************)
\* the field types an operation provides a value for
Replaced(o) ==
    IF o.op = "set" THEN {ty \in KnownTypes : Provided(ArgOf(o, ty))} ELSE {}

C28Original ==
    last.op \in {"sort", "set", "append"} =>
        \A e \in Range(HeadKids(pre)) :
            ~(e.tag = "meta" /\ e.type \in Replaced(last)) =>
                e \in Range(HeadKids(tree))

(***************************************************************************)
(* C29: the errors of one <file> are reported in a fixed precedence, and   *)
(* the files are validated in the order of the document: the error raised  *)
(* is that of the first <file> that is not valid; it is the 'groups' error *)
(* when that file has no groups, whatever its segments and attributes; the *)
(* 'segments' error when its groups are valid and none of its segments is  *)
(* usable, whatever its attributes; and the error of an attribute it lacks *)
(* when its groups and segments are valid.  The metadata of the document   *)
(* is of the usual form, and every <segment> has an attribute.             *)
(***************************************************************************)
\* the file has no <group>
MissingGroups(f) == GroupElems(f) = <<>>

\* the file has no usable <segment>, each <segment> it has being one with
\* attributes
BadSegments(f) ==
    /\ NoSegmentSurvives(f)
    /\ \A i \in 1..Len(SegmentElems(f)) : SegmentElems(f)[i].attrs # <<>>

C29Theorem ==
    (Parsed /\ UsualHead(doc) /\ FirstInvalid(doc) # 0) =>
        LET f == DocFiles(doc)[FirstInvalid(doc)]
        IN  /\ MissingGroups(f) =>
                  (result.exc = "InvalidNzbError" /\ result.msg = MsgGroups)
            /\ (ValidGroups(f) /\ BadSegments(f)) =>
                  (result.exc = "InvalidNzbError" /\ result.msg = MsgSegments)
            /\ (ValidGroups(f) /\ ValidSegments(f)) =>
                  (result.exc = "InvalidNzbError"
                      /\ \E a \in BadAttrs(f) : result.msg = MsgAttr(a))

\* the second <file> of the document is the first that is not valid: it has
\* no groups, no usable segment and lacks its poster, and the error is the
\* 'groups' error
C29Witness ==
    /\ Parsed
    /\ UsualHead(doc)
    /\ FirstInvalid(doc) = 2
    /\ MissingGroups(DocFiles(doc)[2])
    /\ BadSegments(DocFiles(doc)[2])
    /\ "poster" \in BadAttrs(DocFiles(doc)[2])
    /\ result.msg = MsgGroups

(***************************************************************************)
(* C30: for every Nzb, is_rar() implies has_rar(), and has_par2() holds    *)
(* exactly when par2_files is not empty.                                   *)
(* C30Original states the claim as written; from_json returns an Nzb       *)
(* without files, for which is_rar() is true and has_rar() is false.       *)
(***************************************************************************)
C30Original ==
    kinds.read =>
        /\ kinds.is_rar => kinds.has_rar
        /\ kinds.has_par2 <=> kinds.par2_files # <<>>

=============================================================================
